---- MODULE Spec2Model ----
(***************************************************************************)
(* A model of the streaming subscription engine TRWebSocket                *)
(* (src/websocket.ts): the transport attached by connectWebSocket, the     *)
(* subscription registry, the inbound frame handler and the textual delta  *)
(* patcher; of the client TradeRepublicClient (src/index.ts): the login    *)
(* flow, the getters and logout; and of the request helpers of             *)
(* src/utils.ts: makeSignedRequest, extractCookiesFromResponse and         *)
(* convertP1363ToDER.                                                      *)
(*                                                                         *)
(* Texts (frames, ids, payloads) are sequences of one-character strings,   *)
(* so that decimal formatting, splitting on spaces, the delta patcher and  *)
(* JSON parsing are computed character by character, as the code does.     *)
(***************************************************************************)
EXTENDS Integers, Sequences, FiniteSets, TLC

(***************************************************************************)
(* Bounds of the model.                                                    *)
(***************************************************************************)
\* subscribeTo calls explored by Spec (the id counter runs to MaxSubs + 1)
MaxSubs == 2
\* connectWebSocket calls explored by Spec (one transport per call)
MaxConnects == 1
\* subscribeTo and connectWebSocket calls explored by SpecLifecycle
LcSubs == 1
LcConnects == 2
\* subscribeTo calls explored by SpecIds, enough to reach the handshake id
MaxIdSubs == 31
\* HTTP requests, TRWebSocket objects constructed by loginWithCookies and
\* connectWebSocket calls on each object explored by SpecClient
ClRequests == 2
ClHandles == 2
ClConnects == 1
\* requests of a client that logs in, fails and tries again
LgRequests == 3
\* the bytes of r and of s in a P-256 signature
CoordinateBytes == 32
\* tokens of a delta explored by SpecDelta
MaxTokens == 3
\* characters of a frame explored by SpecDecode
MaxRaw == 8
\* Set-Cookie headers of a response explored by SpecCookies
MaxCookies == 2

(***************************************************************************)
(* Text helpers.                                                           *)
(***************************************************************************)
SP == " "

Digits == <<"0", "1", "2", "3", "4", "5", "6", "7", "8", "9">>

DigitChars == {Digits[i] : i \in 1..10}

\* the value of a decimal digit character
DigitVal(c) == (CHOOSE i \in 1..10 : Digits[i] = c) - 1

\* Number.prototype.toString() of a positive integer: its decimal digits
RECURSIVE toString(_)
toString(n) ==
  IF n < 10 THEN <<Digits[n + 1]>>
  ELSE toString(n \div 10) \o <<Digits[(n % 10) + 1]>>

\* String.prototype.split(" "): the pieces between single spaces, empty
\* pieces kept
RECURSIVE SplitOn(_, _)
SplitOn(s, sep) ==
  IF \A i \in 1..Len(s) : s[i] # sep THEN <<s>>
  ELSE LET k == CHOOSE i \in 1..Len(s) :
                  s[i] = sep /\ \A j \in 1..(i - 1) : s[j] # sep
       IN <<SubSeq(s, 1, k - 1)>> \o SplitOn(SubSeq(s, k + 1, Len(s)), sep)

\* Array.prototype.join(sep)
RECURSIVE JoinWith(_, _)
JoinWith(parts, sep) ==
  IF Len(parts) = 0 THEN <<>>
  ELSE IF Len(parts) = 1 THEN parts[1]
  ELSE parts[1] \o <<sep>> \o JoinWith(Tail(parts), sep)

\* String.prototype.startsWith for a one-character prefix
StartsWith(s, c) == Len(s) > 0 /\ s[1] = c

\* the white space of trim() and of \s: space, tab and line feed stand for
\* all of it
WhiteSpace == {SP, "\t", "\n"}

\* String.prototype.trim(): leading and trailing white space removed
RECURSIVE TrimLeft(_)
TrimLeft(s) ==
  IF Len(s) > 0 /\ s[1] \in WhiteSpace THEN TrimLeft(Tail(s)) ELSE s

RECURSIVE TrimRight(_)
TrimRight(s) ==
  IF Len(s) > 0 /\ s[Len(s)] \in WhiteSpace
  THEN TrimRight(SubSeq(s, 1, Len(s) - 1)) ELSE s

Trim(s) == TrimRight(TrimLeft(s))

\* String.prototype.split(/\s+/): the pieces between runs of white space
RECURSIVE SplitWs(_)
SplitWs(s) ==
  IF \A i \in 1..Len(s) : s[i] \notin WhiteSpace THEN <<s>>
  ELSE LET k == CHOOSE i \in 1..Len(s) :
                  s[i] \in WhiteSpace /\ \A j \in 1..(i - 1) : s[j] \notin WhiteSpace
       IN <<SubSeq(s, 1, k - 1)>> \o SplitWs(TrimLeft(SubSeq(s, k + 1, Len(s))))

(***************************************************************************)
(* Numbers as parseInt produces them: NaN, or an integer.                  *)
(***************************************************************************)
NaN == [nan |-> TRUE, v |-> 0]

Num(n) == [nan |-> FALSE, v |-> n]

\* x + y on numbers: NaN when either is NaN
NumAdd(x, y) == IF x.nan \/ y.nan THEN NaN ELSE Num(x.v + y.v)

HexDigits == <<"0", "1", "2", "3", "4", "5", "6", "7", "8", "9",
               "a", "b", "c", "d", "e", "f">>

UpperHex == <<"A", "B", "C", "D", "E", "F">>

IsHexChar(c) ==
  (\E i \in 1..16 : HexDigits[i] = c) \/ (\E i \in 1..6 : UpperHex[i] = c)

HexVal(c) ==
  IF \E i \in 1..16 : HexDigits[i] = c
  THEN (CHOOSE i \in 1..16 : HexDigits[i] = c) - 1
  ELSE (CHOOSE i \in 1..6 : UpperHex[i] = c) + 9

\* the longest prefix of s made of characters satisfying the radix
RECURSIVE DigitPrefix(_, _)
DigitPrefix(s, radix) ==
  IF Len(s) > 0 /\ (IF radix = 16 THEN IsHexChar(s[1]) ELSE s[1] \in DigitChars)
  THEN <<s[1]>> \o DigitPrefix(Tail(s), radix)
  ELSE <<>>

RECURSIVE DigitsValue(_, _)
DigitsValue(ds, radix) ==
  IF Len(ds) = 0 THEN 0
  ELSE DigitsValue(SubSeq(ds, 1, Len(ds) - 1), radix) * radix
       + (IF radix = 16 THEN HexVal(ds[Len(ds)]) ELSE DigitVal(ds[Len(ds)]))

\* parseInt(s) with no radix: leading white space, an optional sign, an
\* optional 0x prefix, then the longest run of digits; NaN when there is none
ParseInt(str) ==
  LET s    == TrimLeft(str)
      neg  == StartsWith(s, "-")
      body == IF StartsWith(s, "-") \/ StartsWith(s, "+") THEN Tail(s) ELSE s
      hex  == Len(body) >= 2 /\ body[1] = "0" /\ body[2] \in {"x", "X"}
      rad  == IF hex THEN 16 ELSE 10
      ds   == DigitPrefix(IF hex THEN SubSeq(body, 3, Len(body)) ELSE body, rad)
  IN IF Len(ds) = 0 THEN NaN
     ELSE Num((IF neg THEN -1 ELSE 1) * DigitsValue(ds, rad))

\* a relative index of String.prototype.slice clamped into 0..len
ClampIndex(x, len) ==
  IF x.nan THEN 0
  ELSE IF x.v < 0 THEN (IF len + x.v < 0 THEN 0 ELSE len + x.v)
  ELSE IF x.v > len THEN len ELSE x.v

\* String.prototype.slice(start, end)
Slice(s, start, end) ==
  LET from == ClampIndex(start, Len(s))
      to   == ClampIndex(end, Len(s))
  IN IF from >= to THEN <<>> ELSE SubSeq(s, from + 1, to)

(***************************************************************************)
(* The delta patcher.                                                      *)
(***************************************************************************)
\* a faulty loop body, in which -N leaves the cursor where it is
ApplyTokenNoSkip(original, token, st) ==
  IF StartsWith(token, "=")
  THEN LET count == ParseInt(Tail(token))
       IN [result |-> st.result
                      \o Slice(original, st.index, NumAdd(st.index, count)),
           index  |-> NumAdd(st.index, count)]
  ELSE IF StartsWith(token, "+")
  THEN [result |-> st.result \o Tail(token), index |-> st.index]
  ELSE st

\* a faulty loop body, in which +TEXT adds the whole token, sign included
ApplyTokenKeepSign(original, token, st) ==
  IF StartsWith(token, "=")
  THEN LET count == ParseInt(Tail(token))
       IN [result |-> st.result
                      \o Slice(original, st.index, NumAdd(st.index, count)),
           index  |-> NumAdd(st.index, count)]
  ELSE IF StartsWith(token, "-")
  THEN [result |-> st.result, index |-> NumAdd(st.index, ParseInt(Tail(token)))]
  ELSE IF StartsWith(token, "+")
  THEN [result |-> st.result \o token, index |-> st.index]
  ELSE st

\* one token of the loop of applyDelta, on the pair (result, originalIndex)
ApplyToken(original, token, st) ==
  IF StartsWith(token, "=")
  THEN LET count == ParseInt(Tail(token))
       IN [result |-> st.result
                      \o Slice(original, st.index, NumAdd(st.index, count)),
           index  |-> NumAdd(st.index, count)]
  ELSE IF StartsWith(token, "-")
  THEN [result |-> st.result, index |-> NumAdd(st.index, ParseInt(Tail(token)))]
  ELSE IF StartsWith(token, "+")
  THEN [result |-> st.result \o Tail(token), index |-> st.index]
  ELSE st

RECURSIVE ApplyTokens(_, _, _)
ApplyTokens(original, tokens, st) ==
  IF Len(tokens) = 0 THEN st
  ELSE ApplyTokens(original, Tail(tokens), ApplyToken(original, tokens[1], st))

\* a faulty applyDelta, which returns the previous text when the delta has
\* no token
applyDeltaKeepOnEmpty(original, deltaString) ==
  IF Len(Trim(deltaString)) = 0 THEN original
  ELSE ApplyTokens(original, SplitWs(Trim(deltaString)),
                   [result |-> <<>>, index |-> Num(0)]).result

applyDelta(original, deltaString) ==
  ApplyTokens(original, SplitWs(Trim(deltaString)),
              [result |-> <<>>, index |-> Num(0)]).result

(***************************************************************************)
(* JSON.parse, on texts over digits, '-', '[', ']', '{', '}', ',' and      *)
(* spaces (every other character makes the text invalid).  The parsed      *)
(* value is represented by its canonical serialisation (JSON.stringify of  *)
(* the value: no white space, -0 written 0), so two texts denote the same  *)
(* value exactly when their parses are equal.                              *)
(***************************************************************************)
ParseFail == [ok |-> FALSE, val |-> <<>>, rest |-> <<>>]

\* -? (0 | [1-9][0-9]*)
ParseNumber(s) ==
  LET neg  == StartsWith(s, "-")
      body == IF neg THEN Tail(s) ELSE s
      ds   == IF StartsWith(body, "0") THEN <<"0">> ELSE DigitPrefix(body, 10)
      rest == SubSeq(body, Len(ds) + 1, Len(body))
  IN IF Len(ds) = 0 THEN ParseFail
     ELSE [ok   |-> TRUE,
           val  |-> IF neg /\ ds # <<"0">> THEN <<"-">> \o ds ELSE ds,
           rest |-> rest]

RECURSIVE ParseValue(_)
RECURSIVE ParseElements(_, _)

\* a value at the head of s (white space already skipped)
ParseValue(s) ==
  IF StartsWith(s, "[")
  THEN LET t == TrimLeft(Tail(s))
       IN IF StartsWith(t, "]")
          THEN [ok |-> TRUE, val |-> <<"[", "]">>, rest |-> Tail(t)]
          ELSE ParseElements(t, <<"[">>)
  ELSE IF StartsWith(s, "{")
  THEN LET t == TrimLeft(Tail(s))
       IN IF StartsWith(t, "}")
          THEN [ok |-> TRUE, val |-> <<"{", "}">>, rest |-> Tail(t)]
          ELSE ParseFail
  ELSE ParseNumber(s)

\* the elements of an array after '[' or ',', acc the serialisation so far
ParseElements(s, acc) ==
  LET r == ParseValue(s)
      t == TrimLeft(r.rest)
  IN IF ~r.ok THEN ParseFail
     ELSE IF StartsWith(t, "]")
     THEN [ok |-> TRUE, val |-> acc \o r.val \o <<"]">>, rest |-> Tail(t)]
     ELSE IF StartsWith(t, ",")
     THEN ParseElements(TrimLeft(Tail(t)), acc \o r.val \o <<",">>)
     ELSE ParseFail

\* JSON.parse(text): ok = FALSE stands for the SyntaxError it throws
JSONParse(text) ==
  LET r == ParseValue(TrimLeft(text))
  IN IF r.ok /\ TrimLeft(r.rest) = <<>>
     THEN [ok |-> TRUE, val |-> r.val]
     ELSE [ok |-> FALSE, val |-> <<>>]

(***************************************************************************)
(* Outbound frames.                                                        *)
(***************************************************************************)
\* JSON.stringify of the topic object {type: name}
StringifyTopic(name) ==
  <<"{", "\"", "t", "y", "p", "e", "\"", ":", "\"">> \o name \o <<"\"", "}">>

\* the topics callers subscribe to, each named by its type
Topics == {<<"a">>}

\* the request id of the connect frame
HandshakeId == <<"3", "1">>

\* JSON.stringify(payload) of the connect frame, for the default language
ConnectPayload ==
  <<"{", "\"", "l", "o", "c", "a", "l", "e", "\"", ":", "\"", "e", "n",
    "\"", ",", "\"", "p", "l", "a", "t", "f", "o", "r", "m", "I", "d",
    "\"", ":", "\"", "w", "e", "b", "t", "r", "a", "d", "i", "n", "g",
    "\"", ",", "\"", "c", "l", "i", "e", "n", "t", "I", "d", "\"", ":",
    "\"", "a", "p", "p", ".", "t", "r", "a", "d", "e", "r", "e", "p", "u",
    "b", "l", "i", "c", ".", "c", "o", "m", "\"", ",", "\"", "c", "l", "i",
    "e", "n", "t", "V", "e", "r", "s", "i", "o", "n", "\"", ":", "\"", "3",
    ".", "1", "8", "1", ".", "1", "\"", "}">>

\* `connect ${requestId} ${JSON.stringify(payload)}`
ConnectFrame ==
  <<"c", "o", "n", "n", "e", "c", "t", SP>> \o HandshakeId \o <<SP>> \o ConnectPayload

\* `sub ${requestId} ${JSON.stringify(payload)}`
SubFrame(requestId, topic) ==
  <<"s", "u", "b", SP>> \o requestId \o <<SP>> \o StringifyTopic(topic)

\* `unsub ${requestId} ${JSON.stringify(payload)}`
UnsubFrame(requestId, topic) ==
  <<"u", "n", "s", "u", "b", SP>> \o requestId \o <<SP>> \o StringifyTopic(topic)

\* the verb and the id of an outbound frame
FrameVerb(frame) == SplitOn(frame, SP)[1]

FrameId(frame) == SplitOn(frame, SP)[2]

(***************************************************************************)
(* Inbound frames the server side may deliver.                             *)
(***************************************************************************)
\* a snapshot with white space in it, and one that is not JSON
SnapshotPayloads == {<<"[", SP, "1", "]">>, <<"[", "1">>}

\* a delta that rebuilds a JSON text, and one that cuts the text short
DeltaPayloads == {<<"=", "2", SP, "+", "2", "]">>, <<"=", "2">>}

\* a frame that starts with a space (its id is empty), a frame of an
\* unknown kind, and a delta frame without payload
OddFrames ==
  {<<SP, "A", SP, "[", "1", "]">>, <<"1", SP, "X", SP, "1">>, <<"1", SP, "D">>}

\* frames for the ids 1..n that subscribeTo allocates, and a close frame for
\* the id n + 1 that it does not
FramesFor(n) ==
  LET ids == {toString(i) : i \in 1..n}
  IN {id \o <<SP, "A", SP>> \o p : id \in ids, p \in SnapshotPayloads}
     \cup {id \o <<SP, "D", SP>> \o p : id \in ids, p \in DeltaPayloads}
     \cup {id \o <<SP, "C">> : id \in ids \cup {toString(n + 1)}}
     \cup OddFrames

\* the value { messageType: "C" } handed to a callback on close
CloseSentinel ==
  <<"{", "\"", "m", "e", "s", "s", "a", "g", "e", "T", "y", "p", "e", "\"",
    ":", "\"", "C", "\"", "}">>

(***************************************************************************)
(* State.                                                                  *)
(***************************************************************************)
VARIABLES
  client,                   \* TradeRepublicClient: processId, initialCookies,
                            \* sessionCookies, and ws, the number of the
                            \* TRWebSocket object it holds
  http,                     \* the HTTP requests made: how many, and those
                            \* not yet answered
  sessionCookies,           \* TRWebSocket.sessionCookies
  webSocket,                \* TRWebSocket.webSocket: 0 for null, else a transport
  subscriptions,            \* TRWebSocket.subscriptions: id text -> callback
  lastSubscriptionPayload,  \* TRWebSocket.lastSubscriptionPayload: id text -> text
  requestIdCounter,         \* TRWebSocket.requestIdCounter
  readyState,               \* per connectWebSocket call: the state of its transport
  promise,                  \* per connectWebSocket call: the state of its promise
  handshakes,               \* per transport: connect frames sent on it
  closed,                   \* ids whose C frame was delivered to their entry
  disconnectedAt,           \* requestIdCounter when disconnectWebSocket last returned
  stale,                    \* the requests that were not yet answered when a
                            \* logout returned
  unsubscribed,             \* registered ids for which an unsub frame went out
  last,                     \* what the last operation did
  input,                    \* the arguments of a function applied on its own
  output                    \* whether it has returned, and what

vars == <<client, http, stale, sessionCookies, webSocket, subscriptions, lastSubscriptionPayload,
          requestIdCounter, readyState, promise, handshakes, closed,
          disconnectedAt, unsubscribed, last, input, output>>

\* the transports created so far, in the order of the connectWebSocket calls
Transports == 1..Len(readyState)

\* the callback passed by the n-th subscribeTo call is named n; 0 is undefined
Undefined == 0

EmptyMap == [x \in {} |-> 0]

\* Map.prototype.set
MapSet(m, k, v) == [x \in (DOMAIN m) \cup {k} |-> IF x = k THEN v ELSE m[x]]

\* Map.prototype.delete
MapDelete(m, k) == [x \in (DOMAIN m) \ {k} |-> m[x]]

NoText == <<>>

\* the record of an operation that did nothing observable; order lists, in
\* the order of the code, the sends, emits, callback calls and promise
\* settlements an operation makes; raw is the event.data a frame handler
\* was given, emitted the texts it passed to the 'message' listeners
Quiet(op) ==
  [op |-> op, t |-> 0, id |-> NoText, letter |-> NoText, payload |-> NoText,
   thrown |-> "", calls |-> <<>>, sent |-> <<>>, emits |-> <<>>, logs |-> <<>>,
   order |-> <<>>, req |-> 0, returned |-> "",
   arg |-> [given |-> FALSE, cookies |-> <<>>],
   raw |-> NoText, emitted |-> <<>>]

NotConnected == "WebSocket is not connected."

\* new TradeRepublicClient(): the field initialisers; the processId null is
\* written "null"
NewClient ==
  [processId |-> "null", initialCookies |-> <<>>, sessionCookies |-> <<>>, ws |-> 0]

NoRequests == [made |-> 0, inflight |-> {}]

\* no function has been applied on its own
NotCalled == [done |-> FALSE, value |-> <<>>]

\* a client and an engine as constructed, before any call
Constructed ==
  /\ client = NewClient
  /\ http = NoRequests
  /\ stale = {}
  /\ sessionCookies \in {<<>>, <<"session=abc">>}
  /\ webSocket = 0
  /\ subscriptions = EmptyMap
  /\ lastSubscriptionPayload = EmptyMap
  /\ requestIdCounter = 1
  /\ readyState = <<>>
  /\ promise = <<>>
  /\ handshakes = <<>>
  /\ closed = {}
  /\ unsubscribed = {}
  /\ disconnectedAt = 1
  /\ last = Quiet("new")

\* new TRWebSocket(cookies), used on its own
Init ==
  /\ Constructed
  /\ input = <<>>
  /\ output = NotCalled

(***************************************************************************)
(* The transport (IWebSocketClient).  Its states are those of the          *)
(* WebSocket API, with CLOSING split in two: CLOSING after a local         *)
(* close(), while frames already received may still be delivered, and      *)
(* FAILING after an error, when only the close event is left.  ABORTED is  *)
(* a transport closed locally before it opened: it reports error, then     *)
(* close.  Before the transport exists the call is PENDING (createWebSocket*)
(* not yet resolved); NOCREATE when createWebSocket threw.                 *)
(***************************************************************************)
\* wsClient.send(data): throws while CONNECTING, transmits while OPEN, and
\* discards the data without throwing once the transport is closing or closed
TransportSend(k, frame) ==
  IF readyState[k] = "CONNECTING"
  THEN [thrown |-> "InvalidStateError", sent |-> <<>>]
  ELSE IF readyState[k] = "OPEN"
  THEN [thrown |-> "", sent |-> <<[t |-> k, frame |-> frame]>>]
  ELSE [thrown |-> "", sent |-> <<>>]

\* wsClient.close(): the state the transport is left in
TransportClose(st) ==
  IF st = "OPEN" THEN "CLOSING"
  ELSE IF st = "CONNECTING" THEN "ABORTED"
  ELSE st

\* resolve() or reject() of a promise: only a pending promise settles
Settle(p, outcome) == IF p = "pending" THEN outcome ELSE p

(***************************************************************************)
(* The caller's API.                                                       *)
(***************************************************************************)
\* `if (!this.webSocket) throw` of sendMessage and subscribe
Connected == webSocket # 0

\* a faulty sendMessage, which returns quietly when there is no transport
SendMessageUnguarded(message) ==
  IF ~Connected THEN [thrown |-> "", sent |-> <<>>]
  ELSE TransportSend(webSocket, message)

\* sendMessage(message)
SendMessageResult(message) ==
  IF ~Connected THEN [thrown |-> NotConnected, sent |-> <<>>]
  ELSE TransportSend(webSocket, message)

\* subscribe(requestId, payload)
SubscribeResult(requestId, topic) ==
  IF ~Connected THEN [thrown |-> NotConnected, sent |-> <<>>]
  ELSE SendMessageResult(SubFrame(requestId, topic))

\* a faulty counter, which stops advancing at 2
StuckCounter(n) == IF n < 2 THEN n + 1 ELSE n

\* the counter after subscribeTo took an id
NextCounter(n) == n + 1

\* the registry after subscribeTo: the entry is installed before subscribe()
\* is called, whether or not that call throws
InstallEntry(subs, requestId, callback) == MapSet(subs, requestId, callback)

\* a faulty connectWebSocket, which does not look at the cookies
ConnectWebSocketUnchecked(limit) ==
  /\ Len(readyState) < limit
  /\ readyState' = Append(readyState, "PENDING")
  /\ promise' = Append(promise, "pending")
  /\ handshakes' = Append(handshakes, 0)
  /\ last' = [Quiet("connectWebSocket") EXCEPT !.t = Len(readyState) + 1]
  /\ UNCHANGED <<input, output, client, http, stale, sessionCookies, webSocket, subscriptions, lastSubscriptionPayload,
                 requestIdCounter, closed, unsubscribed, disconnectedAt>>

\* connectWebSocket(), for at most `limit` transports: rejected when there
\* are no cookies, else the call starts createWebSocket and returns its
\* pending promise
ConnectWebSocket(limit) ==
  /\ Len(readyState) < limit
  /\ IF Len(sessionCookies) = 0
     THEN /\ last' = [Quiet("connectWebSocket") EXCEPT
                        !.thrown = "Not authenticated", !.order = <<"reject">>]
          /\ UNCHANGED <<readyState, promise, handshakes>>
     ELSE /\ readyState' = Append(readyState, "PENDING")
          /\ promise' = Append(promise, "pending")
          /\ handshakes' = Append(handshakes, 0)
          /\ last' = [Quiet("connectWebSocket") EXCEPT !.t = Len(readyState) + 1]
  /\ UNCHANGED <<input, output, client, http, stale, sessionCookies, webSocket, subscriptions, lastSubscriptionPayload,
                 requestIdCounter, closed, unsubscribed, disconnectedAt>>

\* createWebSocket resolved: the handlers are attached and the transport
\* becomes this.webSocket, replacing whatever was there
CreateResolved(k) ==
  /\ readyState[k] = "PENDING"
  /\ readyState' = [readyState EXCEPT ![k] = "CONNECTING"]
  /\ webSocket' = k
  /\ last' = [Quiet("created") EXCEPT !.t = k]
  /\ UNCHANGED <<input, output, client, http, stale, sessionCookies, subscriptions, lastSubscriptionPayload,
                 requestIdCounter, promise, handshakes, closed, unsubscribed, disconnectedAt>>

\* createWebSocket threw: the catch block emits error and rejects
CreateFailed(k) ==
  /\ readyState[k] = "PENDING"
  /\ readyState' = [readyState EXCEPT ![k] = "NOCREATE"]
  /\ promise' = [promise EXCEPT ![k] = Settle(@, "rejected")]
  /\ last' = [Quiet("createFailed") EXCEPT
                !.t = k, !.emits = <<"error">>, !.order = <<"emit", "reject">>]
  /\ UNCHANGED <<input, output, client, http, stale, sessionCookies, webSocket, subscriptions, lastSubscriptionPayload,
                 requestIdCounter, handshakes, closed, unsubscribed, disconnectedAt>>

\* a faulty onopen, which resolves the promise and emits open before it
\* sends the connect frame
OnOpenResolveFirst(k) ==
  /\ readyState[k] = "CONNECTING"
  /\ readyState' = [readyState EXCEPT ![k] = "OPEN"]
  /\ handshakes' = [handshakes EXCEPT ![k] = @ + 1]
  /\ promise' = [promise EXCEPT ![k] = Settle(@, "resolved")]
  /\ last' = [Quiet("onopen") EXCEPT
                !.t = k, !.sent = <<[t |-> k, frame |-> ConnectFrame]>>,
                !.emits = <<"open">>, !.order = <<"resolve", "emit", "send">>]
  /\ UNCHANGED <<input, output, client, http, stale, sessionCookies, webSocket, subscriptions, lastSubscriptionPayload,
                 requestIdCounter, closed, unsubscribed, disconnectedAt>>

\* wsClient.onopen
OnOpen(k) ==
  /\ readyState[k] = "CONNECTING"
  /\ readyState' = [readyState EXCEPT ![k] = "OPEN"]
  /\ handshakes' = [handshakes EXCEPT ![k] = @ + 1]
  /\ promise' = [promise EXCEPT ![k] = Settle(@, "resolved")]
  /\ last' = [Quiet("onopen") EXCEPT
                !.t = k, !.sent = <<[t |-> k, frame |-> ConnectFrame]>>,
                !.emits = <<"open">>, !.order = <<"send", "emit", "resolve">>]
  /\ UNCHANGED <<input, output, client, http, stale, sessionCookies, webSocket, subscriptions, lastSubscriptionPayload,
                 requestIdCounter, closed, unsubscribed, disconnectedAt>>

\* a faulty onerror, which re-emits the error and leaves the promise alone
OnErrorEmitOnly(k) ==
  /\ readyState[k] \in {"CONNECTING", "OPEN", "CLOSING", "ABORTED"}
  /\ readyState' = [readyState EXCEPT ![k] = "FAILING"]
  /\ last' = [Quiet("onerror") EXCEPT
                !.t = k, !.emits = <<"error">>, !.order = <<"emit">>]
  /\ UNCHANGED <<input, output, client, http, stale, sessionCookies, webSocket, subscriptions, lastSubscriptionPayload,
                 requestIdCounter, promise, handshakes, closed, unsubscribed, disconnectedAt>>

\* wsClient.onerror
OnError(k) ==
  /\ readyState[k] \in {"CONNECTING", "OPEN", "CLOSING", "ABORTED"}
  /\ readyState' = [readyState EXCEPT ![k] = "FAILING"]
  /\ promise' = [promise EXCEPT ![k] = Settle(@, "rejected")]
  /\ last' = [Quiet("onerror") EXCEPT
                !.t = k, !.emits = <<"error">>, !.order = <<"emit", "reject">>]
  /\ UNCHANGED <<input, output, client, http, stale, sessionCookies, webSocket, subscriptions, lastSubscriptionPayload,
                 requestIdCounter, handshakes, closed, unsubscribed, disconnectedAt>>

\* wsClient.onclose
OnClose(k) ==
  /\ readyState[k] \in {"OPEN", "CLOSING", "FAILING"}
  /\ readyState' = [readyState EXCEPT ![k] = "CLOSED"]
  /\ last' = [Quiet("onclose") EXCEPT
                !.t = k, !.emits = <<"close">>, !.order = <<"emit">>]
  /\ UNCHANGED <<input, output, client, http, stale, sessionCookies, webSocket, subscriptions, lastSubscriptionPayload,
                 requestIdCounter, promise, handshakes, closed, unsubscribed, disconnectedAt>>

\* disconnectWebSocket()
DisconnectWebSocket ==
  /\ IF webSocket # 0
     THEN /\ readyState' = [readyState EXCEPT ![webSocket] = TransportClose(@)]
          /\ webSocket' = 0
     ELSE UNCHANGED <<readyState, webSocket>>
  /\ disconnectedAt' = requestIdCounter
  /\ last' = [Quiet("disconnectWebSocket") EXCEPT !.t = webSocket]
  /\ UNCHANGED <<input, output, client, http, stale, sessionCookies, subscriptions, lastSubscriptionPayload,
                 requestIdCounter, promise, handshakes, closed, unsubscribed>>

\* messages callers send raw, and ids callers pass to subscribe/unsubscribe
RawMessages == {<<"p", "i", "n", "g">>}

CallerIds == {<<"7">>}

\* sendMessage(message)
SendMessage(message) ==
  /\ LET r == SendMessageResult(message)
     IN last' = [Quiet("sendMessage") EXCEPT
                   !.t = webSocket, !.thrown = r.thrown, !.sent = r.sent]
  /\ UNCHANGED <<input, output, client, http, stale, sessionCookies, webSocket, subscriptions, lastSubscriptionPayload,
                 requestIdCounter, readyState, promise, handshakes, closed, unsubscribed,
                 disconnectedAt>>

\* subscribe(requestId, payload)
Subscribe(requestId, topic) ==
  /\ LET r == SubscribeResult(requestId, topic)
     IN last' = [Quiet("subscribe") EXCEPT
                   !.t = webSocket, !.id = requestId,
                   !.thrown = r.thrown, !.sent = r.sent]
  /\ UNCHANGED <<input, output, client, http, stale, sessionCookies, webSocket, subscriptions, lastSubscriptionPayload,
                 requestIdCounter, readyState, promise, handshakes, closed, unsubscribed,
                 disconnectedAt>>

\* a faulty unsubscribe, which also forgets the entry and its stored text
UnsubscribeAndForget(requestId, topic) ==
  /\ LET r == SendMessageResult(UnsubFrame(requestId, topic))
     IN last' = [Quiet("unsubscribe") EXCEPT
                   !.t = webSocket, !.id = requestId,
                   !.thrown = r.thrown, !.sent = r.sent]
  /\ subscriptions' = MapDelete(subscriptions, requestId)
  /\ lastSubscriptionPayload' = MapDelete(lastSubscriptionPayload, requestId)
  /\ unsubscribed' = unsubscribed \ {requestId}
  /\ UNCHANGED <<input, output, client, http, stale, sessionCookies, webSocket, requestIdCounter, readyState,
                 promise, handshakes, closed, disconnectedAt>>

\* unsubscribe(requestId, payload)
Unsubscribe(requestId, topic) ==
  /\ LET r == SendMessageResult(UnsubFrame(requestId, topic))
     IN /\ last' = [Quiet("unsubscribe") EXCEPT
                      !.t = webSocket, !.id = requestId,
                      !.thrown = r.thrown, !.sent = r.sent]
        /\ unsubscribed' = IF r.sent # <<>> /\ requestId \in DOMAIN subscriptions
                           THEN unsubscribed \cup {requestId} ELSE unsubscribed
  /\ UNCHANGED <<input, output, client, http, stale, sessionCookies, webSocket, subscriptions, lastSubscriptionPayload,
                 requestIdCounter, readyState, promise, handshakes, closed,
                 disconnectedAt>>

\* subscribeTo(payload, callback), for at most `limit` calls; the callback
\* is the one named by the call's number, or undefined
SubscribeTo(topic, withCallback, limit) ==
  /\ requestIdCounter <= limit
  /\ LET requestId == toString(requestIdCounter)
         callback  == IF withCallback THEN requestIdCounter ELSE Undefined
         r         == SubscribeResult(requestId, topic)
     IN /\ requestIdCounter' = NextCounter(requestIdCounter)
        /\ subscriptions' = InstallEntry(subscriptions, requestId, callback)
        /\ last' = [Quiet("subscribeTo") EXCEPT
                      !.t = webSocket, !.id = requestId,
                      !.thrown = r.thrown, !.sent = r.sent]
  /\ UNCHANGED <<input, output, client, http, stale, sessionCookies, webSocket, lastSubscriptionPayload,
                 readyState, promise, handshakes, closed, unsubscribed, disconnectedAt>>

(***************************************************************************)
(* The inbound frame handler (wsClient.onmessage).                         *)
(***************************************************************************)
\* a faulty decoder, which takes the piece after the second space for the
\* payload
DecodeFramePiece(raw) ==
  LET pieces == SplitOn(raw, SP)
  IN [id      |-> pieces[1],
      letter  |-> IF Len(pieces) >= 2 THEN pieces[2] ELSE NoText,
      payload |-> IF Len(pieces) >= 3 THEN pieces[3] ELSE NoText]

\* const [id, letter, ...parts] = raw.split(" "); payload = parts.join(" ")
DecodeFrame(raw) ==
  LET pieces == SplitOn(raw, SP)
  IN [id      |-> pieces[1],
      letter  |-> IF Len(pieces) >= 2 THEN pieces[2] ELSE NoText,
      payload |-> JoinWith(SubSeq(pieces, 3, Len(pieces)), SP)]

\* the frames of Spec and of SpecLifecycle
SpecFrames == FramesFor(MaxSubs)

LcFrames == FramesFor(LcSubs)

\* the decoding of every frame the server sends, computed once
Decoded == [raw \in SpecFrames \cup LcFrames |-> DecodeFrame(raw)]

\* `if (!id || !this.subscriptions.has(id)) return`
Routed(subs, id) == id # NoText /\ id \in DOMAIN subs

\* a faulty dispatch, which calls the callback of another entry when there is
\* one
InvokeOther(subs, id, arg) ==
  LET other == CHOOSE x \in DOMAIN subs : DOMAIN subs = {id} \/ x # id
  IN IF subs[other] = Undefined THEN <<>> ELSE <<[cb |-> subs[other], arg |-> arg]>>

\* this.subscriptions.get(id)?.(arg): the calls made
Invoke(subs, id, arg) ==
  IF subs[id] = Undefined THEN <<>> ELSE <<[cb |-> subs[id], arg |-> arg]>>

\* what a handler leaves behind
Outcome(subs, pays, calls, logs, thrown) ==
  [subs |-> subs, pays |-> pays, calls |-> calls, logs |-> logs, thrown |-> thrown]

\* a faulty case "A", which stores the parsed value written out again in
\* place of the payload
CaseAStoreValue(subs, pays, id, payload, throws) ==
  LET full == JSONParse(payload)
  IN IF ~full.ok
     THEN Outcome(subs, pays, <<>>, <<"Failed to parse full snapshot:">>, "")
     ELSE LET calls == Invoke(subs, id, full.val)
          IN Outcome(subs, MapSet(pays, id, full.val), calls,
                     IF throws /\ calls # <<>>
                     THEN <<"Failed to parse full snapshot:">> ELSE <<>>,
                     "")

\* a faulty case "A", which stores the payload before parsing it
CaseAStoreFirst(subs, pays, id, payload, throws) ==
  LET full == JSONParse(payload)
  IN IF ~full.ok
     THEN Outcome(subs, MapSet(pays, id, payload), <<>>,
                  <<"Failed to parse full snapshot:">>, "")
     ELSE LET calls == Invoke(subs, id, full.val)
          IN Outcome(subs, MapSet(pays, id, payload), calls,
                     IF throws /\ calls # <<>>
                     THEN <<"Failed to parse full snapshot:">> ELSE <<>>,
                     "")

\* case "A": throws is whether the callback, if called, throws
CaseA(subs, pays, id, payload, throws) ==
  LET full == JSONParse(payload)
  IN IF ~full.ok
     THEN Outcome(subs, pays, <<>>, <<"Failed to parse full snapshot:">>, "")
     ELSE LET calls == Invoke(subs, id, full.val)
          IN Outcome(subs, MapSet(pays, id, payload), calls,
                     IF throws /\ calls # <<>>
                     THEN <<"Failed to parse full snapshot:">> ELSE <<>>,
                     "")

\* a faulty case "D", which stores the parsed value written out again in
\* place of the rebuilt text
CaseDStoreValue(subs, pays, id, payload, throws) ==
  IF id \in DOMAIN pays /\ pays[id] # NoText
  THEN LET newPayloadString == applyDelta(pays[id], payload)
           updated == JSONParse(newPayloadString)
       IN IF ~updated.ok
          THEN Outcome(subs, pays, <<>>, <<"Failed to parse delta result:">>, "")
          ELSE LET calls == Invoke(subs, id, updated.val)
               IN Outcome(subs, MapSet(pays, id, updated.val), calls,
                          IF throws /\ calls # <<>>
                          THEN <<"Failed to parse delta result:">> ELSE <<>>,
                          "")
  ELSE Outcome(subs, pays, <<>>, <<"No previous payload to apply delta to">>, "")

\* a faulty case "D", which takes the empty text for a missing stored text
CaseDFromEmpty(subs, pays, id, payload, throws) ==
  LET lastPayload == IF id \in DOMAIN pays THEN pays[id] ELSE NoText
      newPayloadString == applyDelta(lastPayload, payload)
      updated == JSONParse(newPayloadString)
  IN IF ~updated.ok
     THEN Outcome(subs, pays, <<>>, <<"Failed to parse delta result:">>, "")
     ELSE LET calls == Invoke(subs, id, updated.val)
          IN Outcome(subs, MapSet(pays, id, newPayloadString), calls,
                     IF throws /\ calls # <<>>
                     THEN <<"Failed to parse delta result:">> ELSE <<>>,
                     "")

\* a faulty case "D", which stores the empty text when the rebuilt text does
\* not parse
CaseDResetOnFailure(subs, pays, id, payload, throws) ==
  IF id \in DOMAIN pays /\ pays[id] # NoText
  THEN LET newPayloadString == applyDelta(pays[id], payload)
           updated == JSONParse(newPayloadString)
       IN IF ~updated.ok
          THEN Outcome(subs, MapSet(pays, id, NoText), <<>>,
                       <<"Failed to parse delta result:">>, "")
          ELSE LET calls == Invoke(subs, id, updated.val)
               IN Outcome(subs, MapSet(pays, id, newPayloadString), calls,
                          IF throws /\ calls # <<>>
                          THEN <<"Failed to parse delta result:">> ELSE <<>>,
                          "")
  ELSE Outcome(subs, pays, <<>>, <<"No previous payload to apply delta to">>, "")

\* a faulty case "D", which stores the rebuilt text before parsing it
CaseDStoreFirst(subs, pays, id, payload, throws) ==
  IF id \in DOMAIN pays /\ pays[id] # NoText
  THEN LET newPayloadString == applyDelta(pays[id], payload)
           updated == JSONParse(newPayloadString)
           stored == MapSet(pays, id, newPayloadString)
       IN IF ~updated.ok
          THEN Outcome(subs, stored, <<>>, <<"Failed to parse delta result:">>, "")
          ELSE LET calls == Invoke(subs, id, updated.val)
               IN Outcome(subs, stored, calls,
                          IF throws /\ calls # <<>>
                          THEN <<"Failed to parse delta result:">> ELSE <<>>,
                          "")
  ELSE Outcome(subs, pays, <<>>, <<"No previous payload to apply delta to">>, "")

\* case "D"
CaseD(subs, pays, id, payload, throws) ==
  IF id \in DOMAIN pays /\ pays[id] # NoText
  THEN LET newPayloadString == applyDelta(pays[id], payload)
           updated == JSONParse(newPayloadString)
       IN IF ~updated.ok
          THEN Outcome(subs, pays, <<>>, <<"Failed to parse delta result:">>, "")
          ELSE LET calls == Invoke(subs, id, updated.val)
               IN Outcome(subs, MapSet(pays, id, newPayloadString), calls,
                          IF throws /\ calls # <<>>
                          THEN <<"Failed to parse delta result:">> ELSE <<>>,
                          "")
  ELSE Outcome(subs, pays, <<>>, <<"No previous payload to apply delta to">>, "")

\* a faulty case "C", which deletes the entry and keeps the stored text
CaseCKeepText(subs, pays, id, throws) ==
  LET calls == Invoke(subs, id, CloseSentinel)
  IN IF throws /\ calls # <<>>
     THEN Outcome(subs, pays, calls, <<>>, "callback error")
     ELSE Outcome(MapDelete(subs, id), pays, calls, <<>>, "")

\* a faulty case "C", which empties both maps
CaseCEvictAll(subs, pays, id, throws) ==
  LET calls == Invoke(subs, id, CloseSentinel)
  IN IF throws /\ calls # <<>>
     THEN Outcome(subs, pays, calls, <<>>, "callback error")
     ELSE Outcome(EmptyMap, EmptyMap, calls, <<>>, "")

\* case "C": a callback that throws ends the handler before the deletes
CaseC(subs, pays, id, throws) ==
  LET calls == Invoke(subs, id, CloseSentinel)
  IN IF throws /\ calls # <<>>
     THEN Outcome(subs, pays, calls, <<>>, "callback error")
     ELSE Outcome(MapDelete(subs, id), MapDelete(pays, id), calls, <<>>, "")

\* the handler after this.emit("message", raw)
HandleFrame(subs, pays, raw, throws) ==
  LET f == Decoded[raw]
  IN IF ~Routed(subs, f.id) THEN Outcome(subs, pays, <<>>, <<>>, "")
     ELSE IF f.letter = <<"A">> THEN CaseA(subs, pays, f.id, f.payload, throws)
     ELSE IF f.letter = <<"D">> THEN CaseD(subs, pays, f.id, f.payload, throws)
     ELSE IF f.letter = <<"C">> THEN CaseC(subs, pays, f.id, throws)
     ELSE Outcome(subs, pays, <<>>, <<>>, "")

\* whether the callback throws, for a frame that reaches a callback
MayThrow(subs, raw) ==
  IF Routed(subs, Decoded[raw].id) /\ subs[Decoded[raw].id] # Undefined
  THEN BOOLEAN ELSE {FALSE}

\* a faulty onmessage, which emits 'message' after it has routed the frame,
\* and only when no callback threw
OnMessageEmitLast(k, raw, throws) ==
  /\ readyState[k] \in {"OPEN", "CLOSING"}
  /\ LET f == Decoded[raw]
         o == HandleFrame(subscriptions, lastSubscriptionPayload, raw, throws)
     IN /\ subscriptions' = o.subs
        /\ lastSubscriptionPayload' = o.pays
        /\ closed' = IF Routed(subscriptions, f.id) /\ f.letter = <<"C">>
                     THEN closed \cup {f.id} ELSE closed
        /\ unsubscribed' = unsubscribed \cap DOMAIN o.subs
        /\ last' = [Quiet("onmessage") EXCEPT
                      !.t = k, !.id = f.id, !.letter = f.letter,
                      !.payload = f.payload,
                      !.thrown = o.thrown, !.calls = o.calls,
                      !.emits = IF o.thrown = "" THEN <<"message">> ELSE <<>>,
                      !.logs = o.logs, !.raw = raw,
                      !.emitted = IF o.thrown = "" THEN <<raw>> ELSE <<>>,
                      !.order = [i \in 1..Len(o.calls) |-> "call"] \o
                                 (IF o.thrown = "" THEN <<"emit">> ELSE <<>>)]
  /\ UNCHANGED <<input, output, client, http, stale, sessionCookies, webSocket, requestIdCounter, readyState,
                 promise, handshakes, disconnectedAt>>

\* wsClient.onmessage for a frame delivered by transport k
OnMessage(k, raw, throws) ==
  /\ readyState[k] \in {"OPEN", "CLOSING"}
  /\ LET f == Decoded[raw]
         o == HandleFrame(subscriptions, lastSubscriptionPayload, raw, throws)
     IN /\ subscriptions' = o.subs
        /\ lastSubscriptionPayload' = o.pays
        /\ closed' = IF Routed(subscriptions, f.id) /\ f.letter = <<"C">>
                     THEN closed \cup {f.id} ELSE closed
        /\ unsubscribed' = unsubscribed \cap DOMAIN o.subs
        /\ last' = [Quiet("onmessage") EXCEPT
                      !.t = k, !.id = f.id, !.letter = f.letter,
                      !.payload = f.payload,
                      !.thrown = o.thrown, !.calls = o.calls,
                      !.emits = <<"message">>, !.logs = o.logs,
                      !.raw = raw, !.emitted = <<raw>>,
                      !.order = <<"emit">> \o [i \in 1..Len(o.calls) |-> "call"]]
  /\ UNCHANGED <<input, output, client, http, stale, sessionCookies, webSocket, requestIdCounter, readyState,
                 promise, handshakes, disconnectedAt>>

(***************************************************************************)
(* The client (TradeRepublicClient, src/index.ts).  Its ws field holds a   *)
(* TRWebSocket; the engine variables above are the fields of the object    *)
(* client.ws holds now, and client.ws counts the objects constructed.      *)
(* An HTTP request is made by a call and answered in a later step, in      *)
(* which the rest of the async function runs.                              *)
(***************************************************************************)
\* values the server and the caller supply
ProcessIds == {"p1"}

InitialCookieLists == {<<>>, <<"init=1">>}

SessionCookieLists == {<<>>, <<"session=abc">>}

GivenCookieLists == {<<>>, <<"session=xyz", "device=1">>}

\* the REST getters
Getters ==
  {"getAccountInfo", "getTrendingStocks", "getTaxExemptionOrders",
   "getPersonalDetails", "getPaymentMethods", "getTaxResidency",
   "getTaxInformation", "getAllDocuments"}

NotAuthenticated ==
  "Not authenticated. Call initiateLogin() and completeLogin() first."

\* answers to a request: a 2xx response, a response that is not 2xx, and
\* fetch failing
Failures == {"Request failed", "fetch failed"}

\* !this.processId
NoProcessId(processId) == processId \in {"null", ""}

\* makeSignedRequest up to its await of fetch: the request goes out with
\* the cookies given
Issue(call, cookies) ==
  [made     |-> http.made + 1,
   inflight |-> http.inflight \cup
                  {[n |-> http.made + 1, call |-> call, cookies |-> cookies]}]

\* a request answered
Answered(r) == [http EXCEPT !.inflight = @ \ {r}]

\* this.ws = new TRWebSocket(cookies, this.language): the engine variables
\* become those of the new object
NewEngine(cookies) ==
  /\ sessionCookies' = cookies
  /\ webSocket' = 0
  /\ subscriptions' = EmptyMap
  /\ lastSubscriptionPayload' = EmptyMap
  /\ requestIdCounter' = 1
  /\ readyState' = <<>>
  /\ promise' = <<>>
  /\ handshakes' = <<>>
  /\ closed' = {}
  /\ disconnectedAt' = 1
  /\ unsubscribed' = {}

\* the engine variables
engineVars ==
  <<sessionCookies, webSocket, subscriptions, lastSubscriptionPayload,
    requestIdCounter, readyState, promise, handshakes, closed,
    disconnectedAt, unsubscribed>>

\* what the login endpoints answer: error "" is a 2xx response with a
\* well-formed body, "malformed" a 2xx response whose body does not parse
LoginAnswers(cookieLists) ==
  {[error |-> "", processId |-> p, cookies |-> c] :
     p \in ProcessIds, c \in cookieLists}
  \cup {[error |-> e, processId |-> "", cookies |-> <<>>] :
          e \in Failures \cup {"malformed"}}

\* initiateLogin(phoneNumber, pin) up to its first await: the POST goes out
\* without cookies
InitiateLogin(limit) ==
  /\ http.made < limit
  /\ http' = Issue("initiateLogin", <<>>)
  /\ last' = [Quiet("initiateLogin") EXCEPT !.req = http.made + 1]
  /\ UNCHANGED <<client, engineVars, stale, input, output>>

\* the rest of initiateLogin, run when its request is answered
InitiateLoginAnswered(r, answer) ==
  /\ r \in http.inflight
  /\ r.call = "initiateLogin"
  /\ http' = Answered(r)
  /\ IF answer.error = ""
       THEN /\ client' = [client EXCEPT !.processId = answer.processId,
                                        !.initialCookies = answer.cookies]
            /\ last' = [Quiet("initiateLoginAnswered") EXCEPT
                          !.req = r.n, !.order = <<"resolve">>]
       ELSE /\ client' = client
            /\ last' = [Quiet("initiateLoginAnswered") EXCEPT
                          !.req = r.n, !.thrown = answer.error,
                          !.order = <<"reject">>]
  /\ stale' = stale
  /\ UNCHANGED <<engineVars, input, output>>

\* completeLogin without its two checks
CompleteLoginUnchecked(limit) ==
  /\ http.made < limit
  /\ http' = Issue("completeLogin", client.initialCookies)
  /\ last' = [Quiet("completeLogin") EXCEPT !.req = http.made + 1]
  /\ UNCHANGED <<client, engineVars, stale, input, output>>

\* completeLogin(otp) up to its first await
CompleteLogin(limit) ==
  IF NoProcessId(client.processId)
    THEN /\ last' = [Quiet("completeLogin") EXCEPT
                       !.thrown =
                         "Login not initiated. Call initiateLogin() first.",
                       !.order = <<"reject">>]
         /\ UNCHANGED <<client, http, engineVars, stale, input, output>>
    ELSE IF Len(client.initialCookies) = 0
      THEN /\ last' = [Quiet("completeLogin") EXCEPT
                         !.thrown =
                           "No initial cookies found. Call initiateLogin() first.",
                         !.order = <<"reject">>]
           /\ UNCHANGED <<client, http, engineVars, stale, input, output>>
      ELSE /\ http.made < limit
           /\ http' = Issue("completeLogin", client.initialCookies)
           /\ last' = [Quiet("completeLogin") EXCEPT !.req = http.made + 1]
           /\ UNCHANGED <<client, engineVars, stale, input, output>>

\* a faulty completeLogin, which gives up the pending login when its request
\* fails
CompleteLoginAnsweredForget(r, answer) ==
  /\ r \in http.inflight
  /\ r.call = "completeLogin"
  /\ answer.error # "malformed"
  /\ http' = Answered(r)
  /\ stale' = stale
  /\ IF answer.error = ""
       THEN /\ client' = [client EXCEPT !.sessionCookies = answer.cookies,
                                        !.ws = @ + 1]
            /\ NewEngine(answer.cookies)
            /\ UNCHANGED <<input, output>>
            /\ last' = [Quiet("completeLoginAnswered") EXCEPT
                          !.req = r.n, !.order = <<"resolve">>]
       ELSE /\ client' = [client EXCEPT !.processId = "null",
                                        !.initialCookies = <<>>]
            /\ last' = [Quiet("completeLoginAnswered") EXCEPT
                          !.req = r.n, !.thrown = answer.error,
                          !.order = <<"reject">>]
            /\ UNCHANGED <<engineVars, input, output>>

\* the rest of completeLogin, run when its request is answered
CompleteLoginAnswered(r, answer) ==
  /\ r \in http.inflight
  /\ r.call = "completeLogin"
  /\ answer.error # "malformed"
  /\ http' = Answered(r)
  /\ stale' = stale
  /\ IF answer.error = ""
       THEN /\ client' = [client EXCEPT !.sessionCookies = answer.cookies,
                                        !.ws = @ + 1]
            /\ NewEngine(answer.cookies)
            /\ UNCHANGED <<input, output>>
            /\ last' = [Quiet("completeLoginAnswered") EXCEPT
                          !.req = r.n, !.order = <<"resolve">>]
       ELSE /\ client' = client
            /\ last' = [Quiet("completeLoginAnswered") EXCEPT
                          !.req = r.n, !.thrown = answer.error,
                          !.order = <<"reject">>]
            /\ UNCHANGED <<engineVars, input, output>>

\* a faulty loginWithCookies, which adopts the cookies and leaves a pending
\* login in place
LoginWithCookiesKeepPending(given, cookies, limit) ==
  IF ~given \/ Len(cookies) = 0
    THEN /\ last' = [Quiet("loginWithCookies") EXCEPT
                       !.arg = [given |-> given, cookies |-> cookies],
                       !.thrown = "Invalid cookies provided",
                       !.order = <<"reject">>]
         /\ UNCHANGED <<client, http, engineVars, stale, input, output>>
    ELSE /\ client.ws < limit
         /\ client' = [client EXCEPT !.sessionCookies = cookies,
                                     !.ws = @ + 1]
         /\ NewEngine(cookies)
         /\ last' = [Quiet("loginWithCookies") EXCEPT
                       !.arg = [given |-> given, cookies |-> cookies],
                       !.order = <<"resolve">>]
         /\ UNCHANGED <<http, stale, input, output>>

\* loginWithCookies(cookies); given is whether the argument is supplied
\* (!cookies holds when it is not)
LoginWithCookies(given, cookies, limit) ==
  IF ~given \/ Len(cookies) = 0
    THEN /\ last' = [Quiet("loginWithCookies") EXCEPT
                       !.arg = [given |-> given, cookies |-> cookies],
                       !.thrown = "Invalid cookies provided",
                       !.order = <<"reject">>]
         /\ UNCHANGED <<client, http, engineVars, stale, input, output>>
    ELSE /\ client.ws < limit
         /\ client' = [processId      |-> "null",
                       initialCookies |-> <<>>,
                       sessionCookies |-> cookies,
                       ws             |-> client.ws + 1]
         /\ NewEngine(cookies)
         /\ last' = [Quiet("loginWithCookies") EXCEPT
                       !.arg = [given |-> given, cookies |-> cookies],
                       !.order = <<"resolve">>]
         /\ UNCHANGED <<http, stale, input, output>>

\* a getter without its check
GetterUnchecked(g, limit) ==
  /\ http.made < limit
  /\ http' = Issue(g, client.sessionCookies)
  /\ last' = [Quiet(g) EXCEPT !.req = http.made + 1]
  /\ UNCHANGED <<client, engineVars, stale, input, output>>

\* one of the eight getters up to its first await
Getter(g, limit) ==
  IF Len(client.sessionCookies) = 0
    THEN /\ last' = [Quiet(g) EXCEPT !.thrown = NotAuthenticated,
                                     !.order = <<"reject">>]
         /\ UNCHANGED <<client, http, engineVars, stale, input, output>>
    ELSE /\ http.made < limit
         /\ http' = Issue(g, client.sessionCookies)
         /\ last' = [Quiet(g) EXCEPT !.req = http.made + 1]
         /\ UNCHANGED <<client, engineVars, stale, input, output>>

\* the rest of a getter, run when its request is answered
GetterAnswered(r, error) ==
  /\ r \in http.inflight
  /\ r.call \in Getters
  /\ http' = Answered(r)
  /\ last' = [Quiet("getterAnswered") EXCEPT
                !.req = r.n, !.thrown = error,
                !.order = IF error = "" THEN <<"resolve">> ELSE <<"reject">>]
  /\ stale' = stale
  /\ UNCHANGED <<client, engineVars, input, output>>

\* isAuthenticated()
IsAuthenticated ==
  /\ last' = [Quiet("isAuthenticated") EXCEPT
                !.returned = IF Len(client.sessionCookies) > 0
                               THEN "true" ELSE "false"]
  /\ UNCHANGED <<client, http, engineVars, stale, input, output>>

\* logout(): the three fields of the client are assigned anew; the ws field
\* and the object it holds are not touched
Logout ==
  /\ client' = [client EXCEPT !.processId = "null",
                              !.initialCookies = <<>>,
                              !.sessionCookies = <<>>]
  /\ last' = Quiet("logout")
  /\ stale' = stale \cup {r.n : r \in http.inflight}
  /\ UNCHANGED <<http, engineVars, input, output>>

(***************************************************************************)
(* applyDelta applied on its own.  A delta string is written out from an   *)
(* edit script, a sequence of tokens =N, -N and +TEXT, with some layout    *)
(* of white space; input keeps the script next to the string written from  *)
(* it.                                                                     *)
(***************************************************************************)
\* previous texts
Originals ==
  {<<>>, <<"a", "b">>, <<"a", "b", "c">>,
   <<"H", "e", "l", "l", "o", SP, "W", "o", "r", "l", "d">>}

\* the N of =N and -N
Counts == {0, 1, 2, 11}

\* the TEXT of +TEXT
Texts == {<<>>, <<"x">>, <<"W", "o">>, <<"=", "1">>}

ScriptTokens ==
  {[op |-> o, n |-> c, text |-> <<>>] : o \in {"=", "-"}, c \in Counts}
  \cup {[op |-> "+", n |-> 0, text |-> t] : t \in Texts}

\* the edit scripts of at most max tokens
Scripts(max) == UNION {[1..k -> ScriptTokens] : k \in 0..max}

\* a token as the server writes it: N in decimal digits
WriteToken(t) ==
  IF t.op = "+" THEN <<"+">> \o t.text ELSE <<t.op>> \o toString(t.n)

\* white space between the tokens and around the string
Layouts ==
  {[sep |-> <<SP>>, pad |-> <<>>],
   [sep |-> <<SP, SP>>, pad |-> <<SP>>],
   [sep |-> <<"\t">>, pad |-> <<"\n">>]}

RECURSIVE WriteTokens(_, _)
WriteTokens(script, sep) ==
  IF Len(script) = 0 THEN <<>>
  ELSE IF Len(script) = 1 THEN WriteToken(script[1])
  ELSE WriteToken(script[1]) \o sep \o WriteTokens(Tail(script), sep)

\* the delta string of a script
WriteDelta(script, layout) ==
  layout.pad \o WriteTokens(script, layout.sep) \o layout.pad

\* the arguments of applyDelta
DeltaInputs(max) ==
  {[original    |-> o,
    deltaString |-> WriteDelta(sc, l),
    script      |-> sc] : o \in Originals, sc \in Scripts(max), l \in Layouts}

\* this.applyDelta(original, deltaString); strings are immutable, so the
\* arguments are what they were
ApplyDelta ==
  /\ ~output.done
  /\ output' = [done  |-> TRUE,
                value |-> applyDelta(input.original, input.deltaString)]
  /\ UNCHANGED <<client, http, engineVars, stale, last, input>>

(***************************************************************************)
(* Specifications.                                                         *)
(***************************************************************************)
\* connecting, the transport's events and disconnecting
Lifecycle(maxConnects) ==
  \/ ConnectWebSocket(maxConnects)
  \/ \E k \in Transports : CreateResolved(k)
  \/ \E k \in Transports : CreateFailed(k)
  \/ \E k \in Transports : OnOpen(k)
  \/ \E k \in Transports : OnError(k)
  \/ \E k \in Transports : OnClose(k)
  \/ DisconnectWebSocket

\* the caller's sends and the server's frames
Traffic(maxSubs, callbacks, frames) ==
  \/ \E m \in RawMessages : SendMessage(m)
  \/ \E id \in CallerIds, tp \in Topics : Subscribe(id, tp)
  \/ \E id \in CallerIds \cup DOMAIN subscriptions, tp \in Topics : Unsubscribe(id, tp)
  \/ \E tp \in Topics, cb \in callbacks : SubscribeTo(tp, cb, maxSubs)
  \/ \E k \in Transports, raw \in frames :
       \E thr \in MayThrow(subscriptions, raw) : OnMessage(k, raw, thr)

Next == Lifecycle(MaxConnects) \/ Traffic(MaxSubs, {TRUE}, SpecFrames)

Spec == Init /\ [][Next]_vars

NextLifecycle == Lifecycle(LcConnects) \/ Traffic(LcSubs, BOOLEAN, LcFrames)

SpecLifecycle == Init /\ [][NextLifecycle]_vars

\* an engine on which subscribeTo is called up to MaxIdSubs times
NextIds ==
  \/ Lifecycle(MaxConnects)
  \/ \E tp \in Topics : SubscribeTo(tp, TRUE, MaxIdSubs)

SpecIds == Init /\ [][NextIds]_vars

\* an engine that is connected and disconnected, with a transport that goes
\* on: createWebSocket resolves or throws, a connecting transport reports
\* open or error, a transport closed before it opened reports error, and a
\* transport that is closing or has failed reports close
NextConnect == Lifecycle(LcConnects)

TransportGoesOn ==
  \A k \in 1..LcConnects :
    /\ WF_vars(k \in Transports /\ (CreateResolved(k) \/ CreateFailed(k)))
    /\ WF_vars(k \in Transports /\ readyState[k] = "CONNECTING"
                 /\ (OnOpen(k) \/ OnError(k)))
    /\ WF_vars(k \in Transports /\ readyState[k] = "ABORTED" /\ OnError(k))
    /\ WF_vars(k \in Transports /\ readyState[k] \in {"CLOSING", "FAILING"}
                 /\ OnClose(k))

SpecConnect == Init /\ [][NextConnect]_vars /\ TransportGoesOn

\* new TradeRepublicClient(): its ws field holds new TRWebSocket([])
InitClient ==
  /\ Init
  /\ sessionCookies = <<>>

\* a client: the login flow, the getters, logout, and client.ws connected
\* and disconnected
NextClient ==
  \/ InitiateLogin(ClRequests)
  \/ \E r \in http.inflight, answer \in LoginAnswers(InitialCookieLists) :
       InitiateLoginAnswered(r, answer)
  \/ CompleteLogin(ClRequests)
  \/ \E r \in http.inflight, answer \in LoginAnswers(SessionCookieLists) :
       CompleteLoginAnswered(r, answer)
  \/ \E given \in BOOLEAN, cookies \in GivenCookieLists :
       /\ given \/ cookies = <<>>
       /\ LoginWithCookies(given, cookies, ClHandles)
  \/ \E g \in Getters : Getter(g, ClRequests)
  \/ \E r \in http.inflight, error \in Failures \cup {""} :
       GetterAnswered(r, error)
  \/ IsAuthenticated
  \/ Logout
  \/ Lifecycle(ClConnects)

SpecClient == InitClient /\ [][NextClient]_vars

\* a client that logs in, with requests enough for a login to fail and be
\* tried again
NextLogin ==
  \/ InitiateLogin(LgRequests)
  \/ \E r \in http.inflight, answer \in LoginAnswers(InitialCookieLists) :
       InitiateLoginAnswered(r, answer)
  \/ CompleteLogin(LgRequests)
  \/ \E r \in http.inflight, answer \in LoginAnswers(SessionCookieLists) :
       CompleteLoginAnswered(r, answer)
  \/ LoginWithCookies(TRUE, <<"session=xyz", "device=1">>, ClHandles)
  \/ IsAuthenticated
  \/ Logout
  \/ Lifecycle(ClConnects)

SpecLogin == InitClient /\ [][NextLogin]_vars

(***************************************************************************)
(* extractCookiesFromResponse (src/utils.ts).  A response is what its      *)
(* headers offer: whether getSetCookie is a function and the list it       *)
(* returns, whether get is a function and what get("set-cookie") returns:  *)
(* null, a string, or (on some platforms) an array.                        *)
(***************************************************************************)
UpperLetters ==
  <<"A", "B", "C", "D", "E", "F", "G", "H", "I", "J", "K", "L", "M",
    "N", "O", "P", "Q", "R", "S", "T", "U", "V", "W", "X", "Y", "Z">>

LowerLetters ==
  <<"a", "b", "c", "d", "e", "f", "g", "h", "i", "j", "k", "l", "m",
    "n", "o", "p", "q", "r", "s", "t", "u", "v", "w", "x", "y", "z">>

\* a character as the i flag of a regular expression compares it
FoldCase(c) ==
  IF \E i \in 1..26 : UpperLetters[i] = c
  THEN LowerLetters[CHOOSE i \in 1..26 : UpperLetters[i] = c]
  ELSE c

Weekdays ==
  {<<"m", "o", "n">>, <<"t", "u", "e">>, <<"w", "e", "d">>, <<"t", "h", "u">>,
   <<"f", "r", "i">>, <<"s", "a", "t">>, <<"s", "u", "n">>}

\* /^(Mon|Tue|Wed|Thu|Fri|Sat|Sun)/i.test(s)
StartsWithWeekday(s) ==
  /\ Len(s) >= 3
  /\ <<FoldCase(s[1]), FoldCase(s[2]), FoldCase(s[3])>> \in Weekdays

\* the longest prefix of s matched by [^=;\s]
RECURSIVE NameRun(_)
NameRun(s) ==
  IF Len(s) > 0 /\ s[1] \notin ({"=", ";"} \cup WhiteSpace)
  THEN <<s[1]>> \o NameRun(Tail(s))
  ELSE <<>>

\* /^\s*[^=;\s]+\s*=/.test(s)
StartsWithNameEquals(s) ==
  LET t    == TrimLeft(s)
      run  == NameRun(t)
      rest == TrimLeft(SubSeq(t, Len(run) + 1, Len(t)))
  IN Len(run) >= 1 /\ Len(rest) > 0 /\ rest[1] = "="

\* the loop over the characters of the comma-joined header, from the i-th
\* on, and the push after it
RECURSIVE SplitLoop(_, _, _)
SplitLoop(sc, i, st) ==
  IF i > Len(sc)
  THEN IF Len(Trim(st.current)) > 0
       THEN Append(st.rawCookies, Trim(st.current)) ELSE st.rawCookies
  ELSE LET char     == sc[i]
           inQuotes == IF char = "\"" THEN ~st.inQuotes ELSE st.inQuotes
           nextPart == Trim(SubSeq(sc, i + 1, Len(sc)))
       IN IF /\ char = ","
             /\ ~inQuotes
             /\ StartsWithNameEquals(nextPart)
             /\ ~StartsWithWeekday(nextPart)
          THEN SplitLoop(sc, i + 1,
                 [rawCookies |-> Append(st.rawCookies, Trim(st.current)),
                  current    |-> <<>>,
                  inQuotes   |-> inQuotes])
          ELSE SplitLoop(sc, i + 1,
                 [st EXCEPT !.current = @ \o <<char>>, !.inQuotes = inQuotes])

\* the parsing of a comma-joined header
SplitCookieHeader(sc) ==
  SplitLoop(sc, 1, [rawCookies |-> <<>>, current |-> <<>>, inQuotes |-> FALSE])

\* rawCookies.map(cookie.split(";")[0] || null).filter(not null)
RECURSIVE NameValues(_)
NameValues(rawCookies) ==
  IF Len(rawCookies) = 0 THEN <<>>
  ELSE LET cookieValue == SplitOn(rawCookies[1], ";")[1]
       IN (IF Len(cookieValue) > 0 THEN <<cookieValue>> ELSE <<>>)
          \o NameValues(Tail(rawCookies))

extractCookiesFromResponse(response) ==
  LET listed == IF response.hasGetSetCookie THEN response.setCookie ELSE <<>>
      sc     == response.header
      rawCookies ==
        IF Len(listed) = 0 /\ response.hasGet
        THEN IF sc.kind = "array" THEN sc.list
             ELSE IF sc.kind = "string" /\ Len(sc.text) > 0
             THEN SplitCookieHeader(sc.text)
             ELSE listed
        ELSE listed
  IN NameValues(rawCookies)

\* Set-Cookie header values a server sends: a bare pair, a pair with an
\* attribute, a quoted value with a comma, an expires date, and a name that
\* starts like a weekday
ServerCookies ==
  {<<"a", "=", "1">>,
   <<"b", "=", "2", ";", SP, "P", "a", "t", "h", "=", "/">>,
   <<"c", "=", "\"", "x", ",", "y", "=", "1", "\"">>,
   <<"d", "=", "4", ";", SP, "e", "x", "p", "i", "r", "e", "s", "=",
     "W", "e", "d", ",", SP, "2", "1", SP, "O", "c", "t">>,
   <<"S", "u", "n", "n", "y", "=", "5">>}

\* the Set-Cookie headers of a response, in server order
CookieLists(max) == UNION {[1..k -> ServerCookies] : k \in 0..max}

\* Headers.get of a header that occurs several times: the values joined by
\* a comma and a space
RECURSIVE JoinHeaders(_)
JoinHeaders(values) ==
  IF Len(values) = 0 THEN <<>>
  ELSE IF Len(values) = 1 THEN values[1]
  ELSE values[1] \o <<",", SP>> \o JoinHeaders(Tail(values))

\* how a platform hands the headers over: getSetCookie and get both there,
\* get alone, getSetCookie there but returning nothing, get returning an array
Deliveries == {"getSetCookie", "get", "emptyGetSetCookie", "array"}

\* the response of a platform to the cookies a server sets
ResponseOf(cookies, delivery) ==
  [hasGetSetCookie |-> delivery \in {"getSetCookie", "emptyGetSetCookie"},
   setCookie       |-> IF delivery = "getSetCookie" THEN cookies ELSE <<>>,
   hasGet          |-> TRUE,
   header          |->
     IF delivery = "array"
     THEN [kind |-> "array", text |-> <<>>, list |-> cookies]
     ELSE IF Len(cookies) = 0
     THEN [kind |-> "null", text |-> <<>>, list |-> <<>>]
     ELSE [kind |-> "string", text |-> JoinHeaders(cookies), list |-> <<>>]]

\* the arguments of extractCookiesFromResponse
CookieInputs(max) ==
  {[cookies  |-> c, delivery |-> d, response |-> ResponseOf(c, d)] :
     c \in CookieLists(max), d \in Deliveries}

\* extractCookiesFromResponse(response)
ExtractCookies ==
  /\ ~output.done
  /\ output' = [done  |-> TRUE,
                value |-> extractCookiesFromResponse(input.response)]
  /\ UNCHANGED <<client, http, engineVars, stale, last, input>>

\* the characters of the frames decoded on their own
RawChars == {"1", "A", SP}

\* event.data: every text of at most max characters
RawFrames(max) == UNION {[1..k -> RawChars] : k \in 0..max}

\* the first two statements of wsClient.onmessage after the emit, on their
\* own: raw is split and the payload joined again
Decode ==
  /\ ~output.done
  /\ output' = [done |-> TRUE, value |-> DecodeFrame(input.raw)]
  /\ UNCHANGED <<client, http, engineVars, stale, last, input>>

(***************************************************************************)
(* makeSignedRequest (src/utils.ts).  The call builds the headers and the  *)
(* options and awaits fetch; the rest runs when fetch has settled, with a  *)
(* response or with a failure of its own.                                  *)
(***************************************************************************)
ApplicationJson ==
  <<"a", "p", "p", "l", "i", "c", "a", "t", "i", "o", "n", "/", "j", "s",
    "o", "n">>

\* Array.prototype.join("; ")
RECURSIVE JoinCookies(_)
JoinCookies(cookies) ==
  IF Len(cookies) = 0 THEN <<>>
  ELSE IF Len(cookies) = 1 THEN cookies[1]
  ELSE cookies[1] \o <<";", SP>> \o JoinCookies(Tail(cookies))

\* JSON.stringify of an object whose values are strings, given as the list
\* of its keys and values
RECURSIVE StringifyMembers(_)
StringifyMembers(members) ==
  IF Len(members) = 0 THEN <<>>
  ELSE <<"\"">> \o members[1].key \o <<"\"", ":", "\"">> \o members[1].value
         \o <<"\"">>
         \o (IF Len(members) = 1 THEN <<>>
             ELSE <<",">> \o StringifyMembers(Tail(members)))

StringifyPayload(payload) == <<"{">> \o StringifyMembers(payload) \o <<"}">>

\* a faulty header builder, which sets Cookie whenever a list is passed
RequestHeadersCookieAlways(given, cookies, language) ==
  LET base     == [h \in {"Content-Type"} |-> ApplicationJson]
      withLang == IF Len(language) > 0
                  THEN MapSet(base, "Accept-Language", language) ELSE base
  IN IF given
     THEN MapSet(withLang, "Cookie", JoinCookies(cookies))
     ELSE withLang

\* the headers: Content-Type always, Accept-Language `if (language)`, Cookie
\* `if (cookies && cookies.length > 0)`; no language is the empty text, and
\* given is whether a cookie list is passed
RequestHeaders(given, cookies, language) ==
  LET base     == [h \in {"Content-Type"} |-> ApplicationJson]
      withLang == IF Len(language) > 0
                  THEN MapSet(base, "Accept-Language", language) ELSE base
  IN IF given /\ Len(cookies) > 0
     THEN MapSet(withLang, "Cookie", JoinCookies(cookies))
     ELSE withLang

\* requestOptions: the body is added for POST only
RequestOptions(method, payload, headers) ==
  [method  |-> method,
   headers |-> headers,
   hasBody |-> method = "POST",
   body    |-> IF method = "POST" THEN StringifyPayload(payload) ELSE <<>>]

\* response.ok
ResponseOk(status) == status >= 200 /\ status <= 299

\* `Request failed: ${status} ${statusText} - ${await response.text()}`
RequestFailedMessage(response) ==
  <<"R", "e", "q", "u", "e", "s", "t", SP, "f", "a", "i", "l", "e", "d", ":", SP>>
    \o toString(response.status) \o <<SP>> \o response.statusText
    \o <<SP, "-", SP>> \o response.body

\* the cookie lists passed to makeSignedRequest
RequestCookieLists(max) ==
  UNION {[1..k -> {<<"a", "=", "1">>, <<"b", "=", "2">>}] : k \in 0..max}

\* what fetch settles with: a response, or a failure of its own
FetchAnswers ==
  {[failed |-> FALSE, status |-> st, statusText |-> tx, body |-> b] :
     st \in {200, 204, 299, 300, 401, 500},
     tx \in {<<>>, <<"N", "o">>}, b \in {<<>>, <<"{", "}">>}}
  \cup {[failed |-> TRUE, status |-> 200, statusText |-> <<>>, body |-> <<>>]}

\* the arguments of makeSignedRequest, a payload of none, one or two
\* members among them, and what fetch will answer
RequestInputs(max) ==
  {r \in [payload : {<<>>,
                     <<[key |-> <<"p", "i", "n">>, value |-> <<"1">>]>>,
                     <<[key |-> <<"p", "i", "n">>, value |-> <<"1">>],
                       [key |-> <<"o", "s">>, value |-> <<"x">>]>>},
          method : {"GET", "POST"},
          given : BOOLEAN, cookies : RequestCookieLists(max),
          language : {<<>>, <<"e", "n">>}, answer : FetchAnswers] :
     r.given \/ r.cookies = <<>>}

\* makeSignedRequest up to its await of fetch: the request goes out
MakeSignedRequest ==
  /\ last.op = "new"
  /\ output' =
       [done  |-> FALSE,
        value |-> [request  |-> RequestOptions(input.method, input.payload,
                                  RequestHeaders(input.given, input.cookies,
                                                 input.language)),
                   settled  |-> "pending",
                   error    |-> <<>>,
                   returned |-> <<>>]]
  /\ last' = Quiet("makeSignedRequest")
  /\ UNCHANGED <<client, http, engineVars, stale, input>>

\* the rest of makeSignedRequest, run when fetch has settled: with a
\* failure of its own, "fetch failed", when no response arrives
FetchSettled ==
  /\ last.op = "makeSignedRequest"
  /\ output' =
       [done  |-> TRUE,
        value |-> IF input.answer.failed
                  THEN [output.value EXCEPT
                          !.settled = "rejected",
                          !.error = <<"f", "e", "t", "c", "h", SP,
                                      "f", "a", "i", "l", "e", "d">>]
                  ELSE IF ~ResponseOk(input.answer.status)
                  THEN [output.value EXCEPT
                          !.settled = "rejected",
                          !.error = RequestFailedMessage(input.answer)]
                  ELSE [output.value EXCEPT !.settled = "resolved",
                                            !.returned = <<input.answer>>]]
  /\ last' = Quiet("fetchSettled")
  /\ UNCHANGED <<client, http, engineVars, stale, input>>

(***************************************************************************)
(* convertP1363ToDER (src/utils.ts).  A byte array is a sequence of        *)
(* numbers in 0..255.                                                      *)
(***************************************************************************)
\* the while loop of encodeInteger: the index of the first byte kept
RECURSIVE SkipZeros(_, _)
SkipZeros(value, start) ==
  IF start < Len(value) - 1 /\ value[start + 1] = 0
  THEN SkipZeros(value, start + 1)
  ELSE start

\* a faulty encodeInteger, which never adds the 0x00 byte
encodeIntegerNoPadding(value) ==
  LET trimmed == Slice(value, Num(SkipZeros(value, 0)), Num(Len(value)))
  IN <<2, Len(trimmed) % 256>> \o trimmed

\* encodeInteger(value): tag 0x02, the length, a 0x00 byte when the first
\* byte kept is 0x80 or more, and the bytes kept; a Uint8Array element
\* holds its value modulo 256
encodeInteger(value) ==
  LET trimmed      == Slice(value, Num(SkipZeros(value, 0)), Num(Len(value)))
      needsPadding == Len(trimmed) > 0 /\ trimmed[1] >= 128
      length       == Len(trimmed) + (IF needsPadding THEN 1 ELSE 0)
  IN <<2, length % 256>> \o (IF needsPadding THEN <<0>> ELSE <<>>) \o trimmed

\* convertP1363ToDER(p1363Signature): tag 0x30, the total length, and the
\* two integers
convertP1363ToDER(p1363Signature) ==
  LET r    == Slice(p1363Signature, Num(0), Num(CoordinateBytes))
      s    == Slice(p1363Signature, Num(CoordinateBytes), Num(2 * CoordinateBytes))
      rDER == encodeInteger(r)
      sDER == encodeInteger(s)
      totalLength == Len(rDER) + Len(sDER)
  IN <<48, totalLength % 256>> \o rDER \o sDER

\* r and s as a signature holds them: some zero bytes, then a byte, then
\* the same byte repeated to the end
Coordinates ==
  {[i \in 1..CoordinateBytes |->
      IF i <= zeros THEN 0 ELSE IF i = zeros + 1 THEN first ELSE rest] :
     zeros \in {0, 1, 2, CoordinateBytes - 2, CoordinateBytes - 1},
     first \in {0, 1, 127, 128, 255},
     rest \in {0, 128, 255}}

\* convertP1363ToDER(p1363Signature)
ConvertP1363ToDER ==
  /\ ~output.done
  /\ output' = [done  |-> TRUE,
                value |-> convertP1363ToDER(input.signature)]
  /\ UNCHANGED <<client, http, engineVars, stale, last, input>>

\* applyDelta on an engine just constructed
InitDelta ==
  /\ Constructed
  /\ input \in DeltaInputs(MaxTokens)
  /\ output = NotCalled

NextDelta == ApplyDelta

SpecDelta == InitDelta /\ [][NextDelta]_vars

\* the decoder on an engine just constructed
InitDecode ==
  /\ Constructed
  /\ input \in {[raw |-> r] : r \in RawFrames(MaxRaw)}
  /\ output = NotCalled

NextDecode == Decode

SpecDecode == InitDecode /\ [][NextDecode]_vars

\* extractCookiesFromResponse on the responses of the platforms
InitCookies ==
  /\ Constructed
  /\ input \in CookieInputs(MaxCookies)
  /\ output = NotCalled

NextCookies == ExtractCookies

SpecCookies == InitCookies /\ [][NextCookies]_vars

\* convertP1363ToDER on its own
InitSignature ==
  /\ Constructed
  /\ input \in {[signature |-> r \o s] : r \in Coordinates, s \in Coordinates}
  /\ output = NotCalled

NextSignature == ConvertP1363ToDER

SpecSignature == InitSignature /\ [][NextSignature]_vars

\* makeSignedRequest on its own
InitRequest ==
  /\ Constructed
  /\ input \in RequestInputs(MaxCookies)
  /\ output = NotCalled

NextRequest == MakeSignedRequest \/ FetchSettled

SpecRequest == InitRequest /\ [][NextRequest]_vars

(***************************************************************************)
(* Properties.  A step of the frame handler is a step that leaves          *)
(* last.op = "onmessage"; last.id and last.letter are the id and the kind  *)
(* of the frame it handled, last.payload its payload and last.calls the    *)
(* callback calls it made.                                                 *)
(***************************************************************************)
FrameStep == last'.op = "onmessage"

\* C1: a handled frame makes at most one callback call, to the callback that
\* the registry holds under the frame's id, which is the one subscribeTo
\* installed when it allocated that id; a frame whose id has no entry makes
\* no call and changes neither the registry nor any stored text.
C1_FrameReachesOnlyItsCallback ==
  [][FrameStep =>
       /\ Len(last'.calls) <= 1
       /\ \A i \in 1..Len(last'.calls) :
            /\ last'.id \in DOMAIN subscriptions
            /\ last'.calls[i].cb = subscriptions[last'.id]
            /\ toString(last'.calls[i].cb) = last'.id
       /\ last'.id \notin DOMAIN subscriptions =>
            /\ last'.calls = <<>>
            /\ subscriptions' = subscriptions
            /\ lastSubscriptionPayload' = lastSubscriptionPayload]_vars

\* a frame for id 2 reached its callback while id 1 was registered too
C1_Witness ==
  /\ last.op = "onmessage"
  /\ last.id = <<"2">>
  /\ Len(last.calls) = 1
  /\ <<"1">> \in DOMAIN subscriptions

\* C2: a C frame for a registered id calls the id's callback exactly once,
\* with the close sentinel, and removes the id's entry and stored text; every
\* later frame carrying that id makes no call, changes no state and emits no
\* error.
C2_ClosedIdIsDropped ==
  [][FrameStep =>
       /\ (last'.letter = <<"C">> /\ last'.id \in DOMAIN subscriptions) =>
            /\ last'.calls =
                 <<[cb |-> subscriptions[last'.id], arg |-> CloseSentinel]>>
            /\ last'.id \notin DOMAIN subscriptions'
            /\ last'.id \notin DOMAIN lastSubscriptionPayload'
       /\ last'.id \in closed =>
            /\ last'.calls = <<>>
            /\ subscriptions' = subscriptions
            /\ lastSubscriptionPayload' = lastSubscriptionPayload
            /\ "error" \notin {last'.emits[i] : i \in 1..Len(last'.emits)}]_vars

\* a snapshot or delta frame reached the callback of an id whose C frame had
\* been handled before
C2_LateFrameRouted ==
  /\ last.op = "onmessage"
  /\ last.letter \in {<<"A">>, <<"D">>}
  /\ last.id \in closed
  /\ last.calls # <<>>

\* the ids subscribeTo has allocated so far: the decimal texts of 1 up to
\* the counter, exclusive
Allocated(counter) == {toString(i) : i \in 1..(counter - 1)}

\* C3: the counter starts at 1; each subscribeTo call uses the counter's
\* value as decimal text for its id, advances the counter by exactly 1 and
\* adds exactly one registry entry, under that id, so the id is greater than
\* every id allocated before and was never allocated before.
C3_IdsFromCounter ==
  /\ requestIdCounter = 1
  /\ [][last'.op = "subscribeTo" =>
          /\ last'.id = toString(requestIdCounter)
          /\ requestIdCounter' = requestIdCounter + 1
          /\ last'.id \notin Allocated(requestIdCounter)
          /\ \A old \in Allocated(requestIdCounter) :
               ParseInt(last'.id).v > ParseInt(old).v
          /\ last'.id \notin DOMAIN subscriptions
          /\ DOMAIN subscriptions' = DOMAIN subscriptions \cup {last'.id}]_vars

\* the tenth subscribeTo call took the two-digit id 10, after 1 to 9
C3_Witness ==
  /\ last.op = "subscribeTo"
  /\ last.id = <<"1", "0">>
  /\ Cardinality(DOMAIN subscriptions) = 10

\* the frames a subscribeTo call sent that are sub frames
SubFramesSent ==
  IF last.op = "subscribeTo"
  THEN {last.sent[i].frame : i \in {j \in 1..Len(last.sent) :
          FrameVerb(last.sent[j].frame) = <<"s", "u", "b">>}}
  ELSE {}

\* C4: the id 31 belongs to the connect handshake: no sequence of
\* subscribeTo calls installs a registry entry under 31 or sends a sub frame
\* with id 31.
C4_HandshakeIdReserved ==
  /\ HandshakeId \notin DOMAIN subscriptions
  /\ \A frame \in SubFramesSent : FrameId(frame) # HandshakeId

\* the 31st subscribeTo call sent `sub 31 ...` on a transport that had sent
\* `connect 31 ...` when it opened
C4_SubSentWithHandshakeId ==
  /\ last.op = "subscribeTo"
  /\ \E i \in 1..Len(last.sent) :
       /\ FrameVerb(last.sent[i].frame) = <<"s", "u", "b">>
       /\ FrameId(last.sent[i].frame) = FrameId(ConnectFrame)
       /\ handshakes[last.sent[i].t] = 1
  /\ HandshakeId \in DOMAIN subscriptions

\* C5: subscribeTo called while the engine holds no transport throws
\* "WebSocket is not connected." and changes nothing: the counter is not
\* advanced, no entry is installed and nothing is sent.
C5_SubscribeToWithoutTransport ==
  [][(last'.op = "subscribeTo" /\ webSocket = 0) =>
       /\ last'.thrown = NotConnected
       /\ last'.sent = <<>>
       /\ requestIdCounter' = requestIdCounter
       /\ subscriptions' = subscriptions]_vars

\* the first subscribeTo call threw for want of a transport and yet took id
\* 1 and left an entry under it
C5_ThrewButInstalled ==
  /\ last.op = "subscribeTo"
  /\ last.thrown = NotConnected
  /\ last.sent = <<>>
  /\ last.id = <<"1">>
  /\ requestIdCounter = 2
  /\ <<"1">> \in DOMAIN subscriptions

\* a step that handled a D frame for a registered id that has a stored text
DeltaStep ==
  /\ FrameStep
  /\ last'.letter = <<"D">>
  /\ last'.id \in DOMAIN subscriptions
  /\ last'.id \in DOMAIN lastSubscriptionPayload

\* the text a D frame's delta rebuilds from the stored text
Rebuilt == applyDelta(lastSubscriptionPayload[last'.id], last'.payload)

\* C6 as amended: when the text a D frame rebuilds does not parse as JSON,
\* the callback is not called and the stored text stays what it was, so the
\* next D frame is applied to the text stored before; a rebuilt text is
\* stored only when it parses.
C6_FailedDeltaKeepsText ==
  [][DeltaStep =>
       /\ ~JSONParse(Rebuilt).ok =>
            /\ last'.calls = <<>>
            /\ last'.logs = <<"Failed to parse delta result:">>
            /\ lastSubscriptionPayload' = lastSubscriptionPayload
            /\ subscriptions' = subscriptions
       /\ JSONParse(Rebuilt).ok =>
            lastSubscriptionPayload'[last'.id] = Rebuilt]_vars

\* a D frame was rejected for rebuilding a text that is no JSON, and the
\* text stored for its id is still one that parses
C6_Witness ==
  /\ last.op = "onmessage"
  /\ last.letter = <<"D">>
  /\ last.calls = <<>>
  /\ last.logs = <<"Failed to parse delta result:">>
  /\ last.id \in DOMAIN lastSubscriptionPayload
  /\ JSONParse(lastSubscriptionPayload[last.id]).ok
  /\ ~JSONParse(applyDelta(lastSubscriptionPayload[last.id], last.payload)).ok

\* C6: when the text a D frame rebuilds does not parse as JSON, the callback
\* is not called and the stored text has been replaced by the rebuilt text.
C6_FailedDeltaReplacesText ==
  [][(DeltaStep /\ ~JSONParse(Rebuilt).ok) =>
       /\ last'.calls = <<>>
       /\ lastSubscriptionPayload'[last'.id] = Rebuilt]_vars

\* C7: once disconnectWebSocket has returned, or the transport has reported
\* close, the registry is empty: no subscription entries, no stored texts.
C7_RegistryEmptyAfterDisconnect ==
  last.op \in {"disconnectWebSocket", "onclose"} =>
    /\ subscriptions = EmptyMap
    /\ lastSubscriptionPayload = EmptyMap

\* disconnectWebSocket closed a transport and returned with an entry and its
\* stored text still in place
C7_EntriesSurviveDisconnect ==
  /\ last.op = "disconnectWebSocket"
  /\ last.t # 0
  /\ webSocket = 0
  /\ DOMAIN subscriptions # {}
  /\ DOMAIN lastSubscriptionPayload # {}

\* the callbacks a step called that were installed before disconnectWebSocket
\* last returned: callback n is installed by the call that takes id n
CalledFromBefore ==
  {i \in 1..Len(last'.calls) : last'.calls[i].cb < disconnectedAt}

\* C8: after disconnectWebSocket has returned, no callback installed before
\* it is called again, whether for a frame the closing transport still
\* delivers or with a close sentinel.
C8_NoCallbackAfterDisconnect ==
  [][CalledFromBefore = {}]_vars

\* with the engine disconnected, a frame delivered by the transport that is
\* closing called a callback installed before the disconnect
C8_CalledAfterDisconnect ==
  /\ last.op = "onmessage"
  /\ webSocket = 0
  /\ readyState[last.t] = "CLOSING"
  /\ \E i \in 1..Len(last.calls) : last.calls[i].cb < disconnectedAt

\* the engine is OPEN: the transport it holds has reported open and has
\* since reported neither error nor close
EngineOpen == webSocket # 0 /\ readyState[webSocket] = "OPEN"

\* C9: subscribe and subscribeTo succeed only while the engine is OPEN; in
\* every other state they throw and send nothing.  No sub frame goes out on
\* a transport before that transport's connect frame, and after a transport
\* close they fail until a later connectWebSocket succeeds.
C9_SubscribeOnlyWhileOpen ==
  [][last'.op \in {"subscribe", "subscribeTo"} =>
       /\ ~EngineOpen => (last'.thrown # "" /\ last'.sent = <<>>)
       /\ \A i \in 1..Len(last'.sent) :
            handshakes[last'.sent[i].t] >= 1]_vars

\* subscribeTo returned without throwing, and without sending, on an engine
\* whose transport had reported close
C9_SubscribedAfterClose ==
  /\ last.op = "subscribeTo"
  /\ last.thrown = ""
  /\ last.sent = <<>>
  /\ webSocket # 0
  /\ readyState[webSocket] = "CLOSED"
  /\ last.id \in DOMAIN subscriptions

\* the frame unsubscribe puts together for an id and a topic
UnsubText(id, topic) ==
  <<"u", "n", "s", "u", "b", SP>> \o id \o <<SP>> \o StringifyTopic(topic)

\* C10: unsubscribe on a connected engine sends `unsub <id> <json topic>`
\* and removes nothing; an entry leaves the registry only in the step that
\* handles a C frame for its id; until then A and D frames for an id whose
\* unsub frame went out still store their text and call the callback.
C10_UnsubscribeKeepsEntry ==
  [][/\ (last'.op = "unsubscribe" /\ EngineOpen) =>
          /\ last'.thrown = ""
          /\ \E tp \in Topics :
               last'.sent = <<[t |-> webSocket, frame |-> UnsubText(last'.id, tp)]>>
          /\ subscriptions' = subscriptions
          /\ lastSubscriptionPayload' = lastSubscriptionPayload
     /\ \A id \in DOMAIN subscriptions :
          id \notin DOMAIN subscriptions' =>
            (FrameStep /\ last'.letter = <<"C">> /\ last'.id = id)
     /\ (FrameStep /\ last'.id \in unsubscribed /\ last'.letter = <<"A">>
           /\ JSONParse(last'.payload).ok) =>
          /\ lastSubscriptionPayload'[last'.id] = last'.payload
          /\ last'.calls = <<[cb  |-> subscriptions[last'.id],
                              arg |-> JSONParse(last'.payload).val]>>
     /\ (DeltaStep /\ last'.id \in unsubscribed /\ JSONParse(Rebuilt).ok) =>
          /\ lastSubscriptionPayload'[last'.id] = Rebuilt
          /\ last'.calls = <<[cb  |-> subscriptions[last'.id],
                              arg |-> JSONParse(Rebuilt).val]>>]_vars

\* a D frame for an id whose unsub frame had gone out rebuilt the stored
\* text and called the callback
C10_Witness ==
  /\ last.op = "onmessage"
  /\ last.letter = <<"D">>
  /\ last.id \in unsubscribed
  /\ Len(last.calls) = 1
  /\ last.id \in DOMAIN subscriptions

\* C11: a D frame for a registered id with stored text T rebuilds
\* applyDelta(T, payload); when that text parses as JSON, the text itself
\* (not the parsed value written out again) becomes the stored text and the
\* callback is called exactly once, with the parsed value; stored texts
\* therefore compose delta after delta from the snapshot.
C11_DeltaStoresRebuiltText ==
  [][(DeltaStep /\ JSONParse(Rebuilt).ok) =>
       /\ lastSubscriptionPayload' =
            MapSet(lastSubscriptionPayload, last'.id, Rebuilt)
       /\ subscriptions' = subscriptions
       /\ last'.thrown = ""
       /\ last'.calls = <<[cb  |-> subscriptions[last'.id],
                           arg |-> JSONParse(Rebuilt).val]>>]_vars

\* a D frame rebuilt the text "[ 2]" from a stored snapshot, stored it with
\* its white space and called the callback with the value [2]
C11_Witness ==
  /\ last.op = "onmessage"
  /\ last.letter = <<"D">>
  /\ Len(last.calls) = 1
  /\ last.calls[1].arg = <<"[", "2", "]">>
  /\ lastSubscriptionPayload[last.id] = <<"[", SP, "2", "]">>
  /\ last.logs = <<>>

\* a step that handled an A frame for a registered id
SnapshotStep ==
  /\ FrameStep
  /\ last'.letter = <<"A">>
  /\ last'.id \in DOMAIN subscriptions

\* C12: an A frame for a registered id whose payload parses as JSON stores
\* the payload text as it came, in place of any text stored before, and
\* calls the id's callback exactly once with the parsed value.
C12_SnapshotStoresPayload ==
  [][(SnapshotStep /\ JSONParse(last'.payload).ok) =>
       /\ lastSubscriptionPayload' =
            MapSet(lastSubscriptionPayload, last'.id, last'.payload)
       /\ subscriptions' = subscriptions
       /\ last'.thrown = ""
       /\ last'.calls = <<[cb  |-> subscriptions[last'.id],
                           arg |-> JSONParse(last'.payload).val]>>]_vars

\* an A frame with the payload "[ 1]" stored that text, white space kept,
\* and called the callback with the value [1]
C12_Witness ==
  /\ last.op = "onmessage"
  /\ last.letter = <<"A">>
  /\ last.payload = <<"[", SP, "1", "]">>
  /\ Len(last.calls) = 1
  /\ last.calls[1].arg = <<"[", "1", "]">>
  /\ lastSubscriptionPayload[last.id] = <<"[", SP, "1", "]">>

\* C13: an A frame for a registered id whose payload is no JSON is logged
\* and otherwise ignored: no callback call, the entry and the stored texts
\* as before, nothing thrown, and the transports left as they were, so that
\* later frames are handled as if the frame had not come.
C13_BadSnapshotIgnored ==
  [][(SnapshotStep /\ ~JSONParse(last'.payload).ok) =>
       /\ last'.calls = <<>>
       /\ last'.logs = <<"Failed to parse full snapshot:">>
       /\ last'.thrown = ""
       /\ last'.emits = <<"message">>
       /\ UNCHANGED <<subscriptions, lastSubscriptionPayload, webSocket,
                      readyState, requestIdCounter>>]_vars

\* an A frame that is no JSON was rejected for an id whose earlier snapshot
\* is still stored, on a transport that is still open
C13_Witness ==
  /\ last.op = "onmessage"
  /\ last.letter = <<"A">>
  /\ last.payload = <<"[", "1">>
  /\ last.logs = <<"Failed to parse full snapshot:">>
  /\ last.calls = <<>>
  /\ last.id \in DOMAIN lastSubscriptionPayload
  /\ readyState[last.t] = "OPEN"

\* C14: a D frame for a registered id that has no stored text is logged and
\* dropped: no callback call, no text stored for the id, the registry as
\* before, so that a later A frame finds the id as it was.
C14_DeltaWithoutSnapshotDropped ==
  [][(FrameStep /\ last'.letter = <<"D">>
        /\ last'.id \in DOMAIN subscriptions
        /\ last'.id \notin DOMAIN lastSubscriptionPayload) =>
       /\ last'.calls = <<>>
       /\ last'.logs = <<"No previous payload to apply delta to">>
       /\ last'.thrown = ""
       /\ UNCHANGED <<subscriptions, lastSubscriptionPayload, webSocket,
                      readyState, requestIdCounter>>]_vars

\* a D frame was dropped for a registered id that has no stored text
C14_Witness ==
  /\ last.op = "onmessage"
  /\ last.letter = <<"D">>
  /\ last.logs = <<"No previous payload to apply delta to">>
  /\ last.calls = <<>>
  /\ last.id \in DOMAIN subscriptions
  /\ last.id \notin DOMAIN lastSubscriptionPayload

\* the connect frames among the frames the last operation sent
ConnectFramesSent(sent) ==
  {i \in 1..Len(sent) : FrameVerb(sent[i].frame) = <<"c", "o", "n", "n", "e", "c", "t">>}

\* C15: when a transport opens, the engine sends exactly one frame on it,
\* `connect 31 <json>`, before it emits open and before it resolves the
\* promise of the connectWebSocket call; no connect frame goes out on that
\* transport at any other time, so no transport ever carries two.
C15_OneHandshakePerOpen ==
  /\ [](\A k \in Transports :
         /\ handshakes[k] <= 1
         /\ promise[k] = "resolved" => handshakes[k] = 1
         /\ readyState[k] \in {"PENDING", "NOCREATE", "CONNECTING", "ABORTED"}
              => handshakes[k] = 0)
  /\ [][/\ \A k \in Transports :
            (readyState[k] # "OPEN" /\ readyState'[k] = "OPEN") =>
              /\ last'.op = "onopen"
              /\ Len(last'.sent) = 1
              /\ last'.sent[1].t = k
              /\ FrameVerb(last'.sent[1].frame) = <<"c", "o", "n", "n", "e", "c", "t">>
              /\ FrameId(last'.sent[1].frame) = <<"3", "1">>
              /\ last'.sent[1].frame =
                   <<"c", "o", "n", "n", "e", "c", "t", SP, "3", "1", SP>>
                     \o ConnectPayload
              /\ last'.order = <<"send", "emit", "resolve">>
              /\ last'.emits = <<"open">>
              /\ promise[k] = "pending" /\ promise'[k] = "resolved"
              /\ handshakes[k] = 0 /\ handshakes'[k] = 1
        /\ ConnectFramesSent(last'.sent) # {} => last'.op = "onopen"
        /\ \A k \in Transports : handshakes'[k] # handshakes[k] =>
              (readyState[k] = "CONNECTING" /\ readyState'[k] = "OPEN")]_vars

\* the second of two transports opened and sent its connect frame, the
\* first having sent its own
C15_Witness ==
  /\ last.op = "onopen"
  /\ last.t = 2
  /\ handshakes = <<1, 1>>
  /\ promise[2] = "resolved"
  /\ ConnectFramesSent(last.sent) = {1}

\* the engine's own state: its fields and the transports it created
engine ==
  <<sessionCookies, webSocket, subscriptions, lastSubscriptionPayload,
    requestIdCounter, readyState, promise, handshakes>>

\* C16: connectWebSocket on an engine without session cookies rejects with
\* "Not authenticated": no transport is created, no frame sent, no event
\* emitted, no callback called, and the engine's state is unchanged.
C16_ConnectWithoutCookiesRejects ==
  [][(last'.op = "connectWebSocket" /\ Len(sessionCookies) = 0) =>
       /\ last'.thrown = "Not authenticated"
       /\ last'.order = <<"reject">>
       /\ last'.sent = <<>>
       /\ last'.emits = <<>>
       /\ last'.calls = <<>>
       /\ UNCHANGED engine]_vars

\* connectWebSocket was rejected on an engine without cookies that holds an
\* entry from an earlier subscribeTo call, and there is still no transport
C16_Witness ==
  /\ last.op = "connectWebSocket"
  /\ last.thrown = "Not authenticated"
  /\ sessionCookies = <<>>
  /\ readyState = <<>>
  /\ webSocket = 0
  /\ DOMAIN subscriptions # {}

\* C17: sendMessage and unsubscribe throw "WebSocket is not connected."
\* whenever the engine holds no transport, which is so before the first
\* connect and after every disconnectWebSocket; they then send nothing and
\* change nothing.  disconnectWebSocket never throws, leaves the engine
\* without a transport, and changes nothing when none was held.
C17_NoTransportNoSend ==
  [][/\ (last'.op \in {"sendMessage", "unsubscribe"} /\ webSocket = 0) =>
          /\ last'.thrown = "WebSocket is not connected."
          /\ last'.sent = <<>>
          /\ UNCHANGED engine
          /\ UNCHANGED unsubscribed
     /\ last'.op = "disconnectWebSocket" =>
          /\ last'.thrown = ""
          /\ webSocket' = 0
          /\ webSocket = 0 => UNCHANGED engine]_vars

\* with the engine disconnected and its transport still closing, sendMessage
\* threw and sent nothing
C17_Witness ==
  /\ last.op = "sendMessage"
  /\ last.thrown = "WebSocket is not connected."
  /\ last.sent = <<>>
  /\ webSocket = 0
  /\ \E k \in Transports : readyState[k] = "CLOSING"

\* C18: after logout, and until a login succeeds, the client holds no
\* session cookies; the engine in client.ws then carries none either, and
\* connectWebSocket on it rejects with "Not authenticated".
C18_LogoutClearsHandle ==
  /\ [](Len(client.sessionCookies) = 0 => Len(sessionCookies) = 0)
  /\ [][(Len(client.sessionCookies) = 0 /\ last'.op = "connectWebSocket") =>
          last'.thrown = "Not authenticated"]_vars

\* after a login and a logout, connectWebSocket on client.ws was accepted:
\* the engine still carries the cookies of the session that was logged out
C18_ConnectedAfterLogout ==
  /\ last.op = "connectWebSocket"
  /\ last.thrown = ""
  /\ client.ws > 0
  /\ client = [NewClient EXCEPT !.ws = client.ws]
  /\ Len(sessionCookies) > 0
  /\ readyState[last.t] = "PENDING"

\* C19: a new client holds no session cookies and logout leaves none; and
\* whenever the client holds none, isAuthenticated returns false and each of
\* the eight getters rejects with the "Not authenticated" error without
\* making an HTTP request.
C19_NoSessionNoRequest ==
  /\ Len(client.sessionCookies) = 0
  /\ [][/\ last'.op = "logout" => Len(client'.sessionCookies) = 0
        /\ (Len(client.sessionCookies) = 0 /\ last'.op = "isAuthenticated") =>
             last'.returned = "false"
        /\ (Len(client.sessionCookies) = 0 /\ last'.op \in Getters) =>
             /\ last'.thrown =
                  "Not authenticated. Call initiateLogin() and completeLogin() first."
             /\ last'.req = 0
             /\ UNCHANGED http]_vars

\* a getter was rejected after a login followed by a logout: the client
\* holds no session cookies while the engine it was given still does
C19_Witness ==
  /\ last.op \in Getters
  /\ last.thrown = NotAuthenticated
  /\ client.ws > 0
  /\ Len(client.sessionCookies) = 0
  /\ Len(sessionCookies) > 0

\* C20: a new client has no processId, and logout and a successful
\* loginWithCookies leave none; completeLogin called without a processId, or
\* with one but without initial cookies, rejects with its misuse error, makes
\* no HTTP request and changes neither the client's fields nor the engine
\* in client.ws.
C20_CompleteLoginMisuse ==
  /\ NoProcessId(client.processId)
  /\ [][/\ (\/ last'.op = "logout"
            \/ last'.op = "loginWithCookies" /\ last'.thrown = "") =>
             NoProcessId(client'.processId)
        /\ (last'.op = "completeLogin" /\ NoProcessId(client.processId)) =>
             /\ last'.thrown =
                  "Login not initiated. Call initiateLogin() first."
             /\ last'.req = 0
             /\ UNCHANGED <<client, http, engineVars>>
        /\ (/\ last'.op = "completeLogin"
            /\ ~NoProcessId(client.processId)
            /\ Len(client.initialCookies) = 0) =>
             /\ last'.thrown =
                  "No initial cookies found. Call initiateLogin() first."
             /\ last'.req = 0
             /\ UNCHANGED <<client, http, engineVars>>]_vars

\* completeLogin was rejected on a client whose initiateLogin had been
\* answered with a processId and no cookies; only that one request was made
C20_Witness ==
  /\ last.op = "completeLogin"
  /\ last.thrown = "No initial cookies found. Call initiateLogin() first."
  /\ client.processId \in ProcessIds
  /\ Len(client.initialCookies) = 0
  /\ http = [made |-> 1, inflight |-> {}]

\* C21: when completeLogin resolves, the client holds session cookies and
\* client.ws is an engine carrying them; isAuthenticated called next returns
\* true and connectWebSocket called next on client.ws is not rejected.
C21_ResolvedMeansAuthenticated ==
  /\ []((last.op = "completeLoginAnswered" /\ last.thrown = "") =>
          /\ Len(client.sessionCookies) > 0
          /\ sessionCookies = client.sessionCookies)
  /\ [][(last.op = "completeLoginAnswered" /\ last.thrown = "") =>
          /\ last'.op = "isAuthenticated" => last'.returned = "true"
          /\ last'.op = "connectWebSocket" => last'.thrown = ""]_vars

\* completeLogin resolved on a 2xx answer that set no cookie: the client
\* holds no session cookies and the new engine in client.ws has none
C21_ResolvedWithoutSession ==
  /\ last.op = "completeLoginAnswered"
  /\ last.thrown = ""
  /\ last.order = <<"resolve">>
  /\ client.ws = 1
  /\ Len(client.sessionCookies) = 0
  /\ Len(sessionCookies) = 0

\* C22: loginWithCookies without a list, or with an empty one, rejects with
\* "Invalid cookies provided" and changes nothing; with a non-empty list it
\* resolves, the client's session cookies are exactly that list, no
\* processId and no initial cookies remain, client.ws is a new engine
\* carrying the list, and isAuthenticated called next returns true.
C22_LoginWithCookies ==
  /\ [][last'.op = "loginWithCookies" =>
          IF ~last'.arg.given \/ Len(last'.arg.cookies) = 0
            THEN /\ last'.thrown = "Invalid cookies provided"
                 /\ UNCHANGED <<client, http, engineVars>>
            ELSE /\ last'.thrown = ""
                 /\ client'.sessionCookies = last'.arg.cookies
                 /\ NoProcessId(client'.processId)
                 /\ Len(client'.initialCookies) = 0
                 /\ client'.ws = client.ws + 1
                 /\ sessionCookies' = last'.arg.cookies
                 /\ webSocket' = 0
                 /\ UNCHANGED http]_vars
  /\ [][(/\ last.op = "loginWithCookies"
         /\ last.thrown = ""
         /\ last'.op = "isAuthenticated") => last'.returned = "true"]_vars

\* loginWithCookies resolved on a client whose initiateLogin is still in
\* flight: the two cookies given are the session cookies of the client and of
\* the engine in client.ws, in the order given
C22_Witness ==
  /\ last.op = "loginWithCookies"
  /\ last.thrown = ""
  /\ last.arg = [given |-> TRUE, cookies |-> <<"session=xyz", "device=1">>]
  /\ client.sessionCookies = <<"session=xyz", "device=1">>
  /\ sessionCookies = <<"session=xyz", "device=1">>
  /\ client.ws = 1
  /\ http.made = 1
  /\ http.inflight # {}

\* the characters of the previous text a script consumes: the sum of N over
\* its =N and -N tokens
RECURSIVE Consumed(_)
Consumed(script) ==
  IF Len(script) = 0 THEN 0 ELSE script[1].n + Consumed(Tail(script))

\* what a script makes of the text S from the cursor on: each =N copies the N
\* characters at the cursor, each =N and -N moves the cursor by N, each +TEXT
\* adds TEXT
RECURSIVE Patched(_, _, _)
Patched(S, script, cursor) ==
  IF Len(script) = 0 THEN <<>>
  ELSE LET t == script[1]
       IN IF t.op = "=" 
          THEN SubSeq(S, cursor + 1, cursor + t.n)
               \o Patched(S, Tail(script), cursor + t.n)
          ELSE IF t.op = "-"
          THEN Patched(S, Tail(script), cursor + t.n)
          ELSE t.text \o Patched(S, Tail(script), cursor)

\* C23: for a previous text S and a delta written from a script of =N, -N and
\* +TEXT tokens whose cursor never passes the end of S, applyDelta returns the
\* slices of S copied by the =N tokens and the TEXTs of the +TEXT tokens, in
\* token order; what is left of S is dropped, and S is not modified.
C23_ValidScriptApplied ==
  /\ [](output.done /\ Consumed(input.script) <= Len(input.original) =>
          output.value = Patched(input.original, input.script, 0))
  /\ [][output'.done => input'.original = input.original]_vars

\* "Hello World" patched by "=2", "-1", "+Wo" laid out with tabs and line
\* feeds gave "HeWo": eight characters of the text were left unread
C23_Witness ==
  /\ output.done
  /\ input.original = <<"H", "e", "l", "l", "o", SP, "W", "o", "r", "l", "d">>
  /\ input.deltaString =
       <<"\n", "=", "2", "\t", "-", "1", "\t", "+", "W", "o", "\n">>
  /\ output.value = <<"H", "e", "W", "o">>

\* the sum of N over the =N tokens of a script
RECURSIVE Copied(_)
Copied(script) ==
  IF Len(script) = 0 THEN 0
  ELSE (IF script[1].op = "=" THEN script[1].n ELSE 0) + Copied(Tail(script))

\* the sum of the lengths of TEXT over the +TEXT tokens of a script
RECURSIVE Inserted(_)
Inserted(script) ==
  IF Len(script) = 0 THEN 0
  ELSE (IF script[1].op = "+" THEN Len(script[1].text) ELSE 0)
       + Inserted(Tail(script))

\* every =N of the script finds N characters of S at the cursor
RECURSIVE CopiesWithin(_, _, _)
CopiesWithin(S, script, cursor) ==
  \/ Len(script) = 0
  \/ /\ script[1].op = "=" => (script[1].n = 0 \/ cursor + script[1].n <= Len(S))
     /\ CopiesWithin(S, Tail(script), cursor + script[1].n)

\* C24 as stated: for every previous text and every delta, the length of the
\* result is the sum of N over the =N tokens plus the sum of the lengths of
\* TEXT over the +TEXT tokens.
C24_LengthIsSumOfTokens ==
  output.done =>
    Len(output.value) = Copied(input.script) + Inserted(input.script)

\* C24 as amended: the length of the result is that sum for every previous
\* text and every delta in which each =N finds N characters of the text at
\* the cursor.
C24_LengthOfCopiesWithin ==
  (output.done /\ CopiesWithin(input.original, input.script, 0)) =>
    Len(output.value) = Copied(input.script) + Inserted(input.script)

\* "abc" patched by "=2 +Wo -11" gave four characters, two copied and two
\* inserted, though the skip runs past the end of the text
C24_Witness ==
  /\ output.done
  /\ input.original = <<"a", "b", "c">>
  /\ input.deltaString = <<"=", "2", SP, "+", "W", "o", SP, "-", "1", "1">>
  /\ Len(output.value) = 4
  /\ ~(Consumed(input.script) <= Len(input.original))

\* C25: a delta that is empty, or made of white space only, applied to any
\* previous text gives the empty text.
C25_EmptyDeltaEmptyText ==
  (/\ output.done
   /\ \A i \in 1..Len(input.deltaString) : input.deltaString[i] \in WhiteSpace)
    => output.value = <<>>

\* "Hello World" patched by the empty delta gave the empty text
C25_Witness ==
  /\ output.done
  /\ input.original = <<"H", "e", "l", "l", "o", SP, "W", "o", "r", "l", "d">>
  /\ input.deltaString = <<>>
  /\ output.value = <<>>

\* the position of the first space of a text, 0 when it has none
FirstSpace(s) ==
  IF \E i \in 1..Len(s) : s[i] = SP
  THEN CHOOSE i \in 1..Len(s) : s[i] = SP /\ \A j \in 1..(i - 1) : s[j] # SP
  ELSE 0

\* the text after the first space
AfterFirstSpace(s) == SubSeq(s, FirstSpace(s) + 1, Len(s))

\* C26: of a frame with two spaces or more, the decoder takes the text before
\* the first space as the id, the text between the first and the second space
\* as the kind, and all that follows the second space as the payload,
\* character for character: single and consecutive spaces inside it and
\* spaces at its start and end are kept.
C26_PayloadAsReceived ==
  (/\ output.done
   /\ FirstSpace(input.raw) > 0
   /\ FirstSpace(AfterFirstSpace(input.raw)) > 0) =>
    LET rest == AfterFirstSpace(input.raw)
    IN /\ output.value.id = SubSeq(input.raw, 1, FirstSpace(input.raw) - 1)
       /\ output.value.letter = SubSeq(rest, 1, FirstSpace(rest) - 1)
       /\ output.value.payload = AfterFirstSpace(rest)

\* the frame "1 A  1  " was decoded: its payload starts with a space and ends
\* with two
C26_Witness ==
  /\ output.done
  /\ input.raw = <<"1", SP, "A", SP, SP, "1", SP, SP>>
  /\ output.value.id = <<"1">>
  /\ output.value.letter = <<"A">>
  /\ output.value.payload = <<SP, "1", SP, SP>>

\* the entries and the stored texts of the ids other than id are, after the
\* step, what they were before it
OthersKept(id) ==
  /\ DOMAIN subscriptions' \ {id} = DOMAIN subscriptions \ {id}
  /\ DOMAIN lastSubscriptionPayload' \ {id} = DOMAIN lastSubscriptionPayload \ {id}
  /\ \A j \in DOMAIN subscriptions \ {id} : subscriptions'[j] = subscriptions[j]
  /\ \A j \in DOMAIN lastSubscriptionPayload \ {id} :
       lastSubscriptionPayload'[j] = lastSubscriptionPayload[j]

\* C27: each subscribeTo call, whatever its topic, adds an entry under an id
\* that no entry has and that no closed entry had, and leaves every other
\* entry and every stored text as it was; a frame for an id leaves the entry
\* and the stored text of every other id as they were and calls no other
\* id's callback.
C27_EntriesIndependent ==
  [][/\ last'.op = "subscribeTo" =>
          /\ last'.id \notin DOMAIN subscriptions
          /\ last'.id \notin closed
          /\ last'.id \in DOMAIN subscriptions'
          /\ Cardinality(DOMAIN subscriptions') =
               Cardinality(DOMAIN subscriptions) + 1
          /\ OthersKept(last'.id)
          /\ last'.calls = <<>>
     /\ FrameStep =>
          /\ OthersKept(last'.id)
          /\ \A j \in DOMAIN subscriptions \ {last'.id} :
               \A i \in 1..Len(last'.calls) :
                 last'.calls[i].cb # subscriptions[j]]_vars

\* two subscriptions to the same topic hold the ids 1 and 2 and a stored text
\* each; a delta for id 1 was applied and its callback called
C27_Witness ==
  /\ last.op = "onmessage"
  /\ last.id = <<"1">>
  /\ last.letter = <<"D">>
  /\ Len(last.calls) = 1
  /\ DOMAIN subscriptions = {<<"1">>, <<"2">>}
  /\ DOMAIN lastSubscriptionPayload = {<<"1">>, <<"2">>}
  /\ lastSubscriptionPayload[<<"1">>] # lastSubscriptionPayload[<<"2">>]

\* the name=value of a Set-Cookie header value: the text before its first
\* semicolon
NameValueOf(cookie) ==
  IF \E i \in 1..Len(cookie) : cookie[i] = ";"
  THEN SubSeq(cookie, 1,
              (CHOOSE i \in 1..Len(cookie) :
                 cookie[i] = ";" /\ \A j \in 1..(i - 1) : cookie[j] # ";") - 1)
  ELSE cookie

\* C28: however the platform hands over the Set-Cookie headers of a response
\* (separately through getSetCookie, or comma-joined through get when
\* getSetCookie is absent or returns nothing), extractCookiesFromResponse
\* returns the name=value of each header, in server order and without
\* attributes; no header gives the empty sequence.
C28_SameCookiesEitherWay ==
  output.done =>
    /\ Len(output.value) = Len(input.cookies)
    /\ \A i \in 1..Len(input.cookies) :
         output.value[i] = NameValueOf(input.cookies[i])

\* the headers a=1 and Sunny=5 were handed over comma-joined and came back as
\* the one cookie "a=1, Sunny=5"
C28_TwoCookiesMerged ==
  /\ output.done
  /\ input.delivery = "get"
  /\ input.cookies = <<<<"a", "=", "1">>, <<"S", "u", "n", "n", "y", "=", "5">>>>
  /\ output.value =
       <<<<"a", "=", "1", ",", SP, "S", "u", "n", "n", "y", "=", "5">>>>

\* C29: every stored text is non-empty and parses as JSON, in every state.
C29_StoredTextsParse ==
  \A id \in DOMAIN lastSubscriptionPayload :
    /\ Len(lastSubscriptionPayload[id]) > 0
    /\ JSONParse(lastSubscriptionPayload[id]).ok

\* a delta frame without payload was handled for an id with a stored text:
\* the empty result did not parse, and the text stored is still the snapshot
C29_Witness ==
  /\ last.op = "onmessage"
  /\ last.id = <<"1">>
  /\ last.letter = <<"D">>
  /\ last.payload = NoText
  /\ last.logs = <<"Failed to parse delta result:">>
  /\ <<"1">> \in DOMAIN lastSubscriptionPayload
  /\ lastSubscriptionPayload[<<"1">>] = <<"[", SP, "1", "]">>

\* C30: in every state, each id with a stored text has a registry entry.
C30_TextsOnlyForEntries ==
  DOMAIN lastSubscriptionPayload \subseteq DOMAIN subscriptions

\* a C frame evicted id 1 while id 2 keeps its entry and its stored text: the
\* text of id 1 went with its entry
C30_Witness ==
  /\ last.op = "onmessage"
  /\ last.id = <<"1">>
  /\ last.letter = <<"C">>
  /\ <<"1">> \in closed
  /\ DOMAIN subscriptions = {<<"2">>}
  /\ DOMAIN lastSubscriptionPayload = {<<"2">>}

\* the transports attached to the engine: created, with the handlers of
\* connectWebSocket on them, and not closed or closing
Attached == {k \in Transports : readyState[k] \in {"CONNECTING", "OPEN"}}

\* C31: at most one transport is ever attached to an engine; when
\* disconnectWebSocket has returned no transport made by an earlier
\* connectWebSocket call is connecting or open, and a frame is only ever
\* handled from the transport the engine holds.
C31_NoTransportAfterDisconnect ==
  /\ [](Cardinality(Attached) <= 1)
  /\ [](last.op = "disconnectWebSocket" => Attached = {})
  /\ [][last'.op = "onmessage" => last'.t = webSocket]_vars

\* connectWebSocket was called twice; disconnectWebSocket closed the transport
\* the engine held and returned while the other one, which the engine had
\* lost track of, is open, and that one then delivered a frame to a callback
C31_OpenAfterDisconnect ==
  /\ last.op = "onmessage"
  /\ webSocket = 0
  /\ readyState[last.t] = "OPEN"
  /\ last.calls # <<>>
  /\ \E k \in Transports : k # last.t /\ readyState[k] \in {"CLOSING", "CLOSED"}

\* disconnectWebSocket has just returned, n connectWebSocket calls having
\* been made, while call k was pending: its transport not yet created, or
\* created and not yet open
DisconnectedWhilePending(n, k) ==
  IF last.op = "disconnectWebSocket" /\ Len(readyState) = n /\ k <= n
  THEN readyState[k] \in {"PENDING", "CONNECTING", "ABORTED"}
  ELSE FALSE

\* connectWebSocket has not been called since n calls had been made, and
\* call k stays cancelled: the engine holds no transport, and the transport
\* of call k is not open and was not sent the connect frame
StaysCancelled(n, k) ==
  IF Len(readyState) = n /\ k <= n
  THEN webSocket = 0 /\ readyState[k] # "OPEN" /\ handshakes[k] = 0
  ELSE TRUE

\* C32: when disconnectWebSocket has returned while a connectWebSocket call
\* was pending (its transport not yet created, or created and not yet open),
\* then, for as long as connectWebSocket is not called again, the engine
\* holds no transport and the transport of that call is not open and has
\* not been sent the connect frame, which goes out when 'open' is emitted.
C32_PendingConnectCancelled ==
  \A n \in 1..LcConnects, k \in 1..LcConnects :
    [](DisconnectedWhilePending(n, k) => []StaysCancelled(n, k))

\* disconnectWebSocket has returned, finding no transport to close, while
\* the only connectWebSocket call made is waiting for createWebSocket
C32_DisconnectedWhileCreating ==
  /\ last.op = "disconnectWebSocket"
  /\ last.t = 0
  /\ webSocket = 0
  /\ readyState = <<"PENDING">>
  /\ promise = <<"pending">>

\* the promise of the connectWebSocket call a step was about was pending
\* before the step
WasPending == last'.t \in DOMAIN promise /\ promise[last'.t] = "pending"

Cleared(c) ==
  /\ c.processId = "null"
  /\ c.initialCookies = <<>>
  /\ c.sessionCookies = <<>>

\* C34: when a login request that was in flight while logout returned is
\* answered, a client that held no session cookies, no processId and no
\* initial cookies still holds none, so isAuthenticated() stays false.
C34_LogoutWins ==
  [][(/\ last'.op \in {"initiateLoginAnswered", "completeLoginAnswered"}
      /\ last'.req \in stale
      /\ Cleared(client)) => Cleared(client')]_vars

\* logout returned while the completeLogin request was in flight; no login
\* was started afterwards, the request was answered with a session cookie,
\* and the client holds it and a new engine built with it
C34_AuthenticatedAfterLogout ==
  /\ last.op = "completeLoginAnswered"
  /\ last.req \in stale
  /\ http.made = last.req
  /\ client.processId = "null"
  /\ client.initialCookies = <<>>
  /\ client.sessionCookies = <<"session=abc">>
  /\ client.ws = 1
  /\ sessionCookies = <<"session=abc">>

\* the client is awaiting the OTP: completeLogin would pass its two checks
AwaitingOtp(c) == ~NoProcessId(c.processId) /\ Len(c.initialCookies) > 0

\* a step in which initiateLogin or completeLogin failed: rejected at once,
\* or when its request was answered
LoginFailed ==
  /\ last'.op \in {"initiateLogin", "initiateLoginAnswered",
                   "completeLogin", "completeLoginAnswered"}
  /\ last'.thrown # ""

\* C35: a failing initiateLogin or completeLogin leaves processId,
\* initialCookies, sessionCookies and the ws handle, with the engine it
\* holds, as they were; a completeLogin called right after a failed
\* completeLogin on a client awaiting the OTP is accepted, and its request
\* carries the same initial cookies, the processId being unchanged.
C35_FailedLoginChangesNothing ==
  [][/\ LoginFailed => (client' = client /\ engineVars' = engineVars)
     /\ (/\ last.op = "completeLoginAnswered"
         /\ last.thrown # ""
         /\ AwaitingOtp(client)
         /\ last'.op = "completeLogin") =>
          /\ last'.thrown = ""
          /\ client' = client
          /\ \E q \in http'.inflight :
               /\ q.n = last'.req
               /\ q.call = "completeLogin"
               /\ q.cookies = client.initialCookies]_vars

\* the completeLogin request was answered with a failure: the client is
\* still awaiting the OTP, with the processId and the initial cookies that
\* initiateLogin stored, no session cookies and the engine it was built with,
\* and a further request can be made
C35_Witness ==
  /\ last.op = "completeLoginAnswered"
  /\ last.thrown = "Request failed"
  /\ last.req = 2
  /\ http = [made |-> 2, inflight |-> {}]
  /\ stale = {}
  /\ client = [processId |-> "p1", initialCookies |-> <<"init=1">>,
               sessionCookies |-> <<>>, ws |-> 0]

\* C36: a C frame handled for a registered id removes the id's entry and its
\* stored text, whether its callback returns or throws on the close sentinel.
C36_ClosedEntryRemovedOnThrow ==
  [][(/\ FrameStep
      /\ last'.letter = <<"C">>
      /\ last'.id \in DOMAIN subscriptions) =>
       /\ last'.id \notin DOMAIN subscriptions'
       /\ last'.id \notin DOMAIN lastSubscriptionPayload']_vars

\* the callback of id 1 threw on the close sentinel, and the entry and the
\* stored text of id 1 are still in the registry
C36_ClosedEntryKept ==
  /\ last.op = "onmessage"
  /\ last.letter = <<"C">>
  /\ last.id = <<"1">>
  /\ last.thrown = "callback error"
  /\ last.calls = <<[cb |-> 1, arg |-> CloseSentinel]>>
  /\ <<"1">> \in closed
  /\ <<"1">> \in DOMAIN subscriptions
  /\ <<"1">> \in DOMAIN lastSubscriptionPayload

\* C37: every frame the transport delivers is passed to the 'message'
\* listeners exactly once, as the text received, and before any callback the
\* handler calls for it; this holds for a frame that is routed, for one whose
\* id has no entry, and for one that is logged as an anomaly.
C37_MessageEmittedFirst ==
  [][FrameStep =>
       /\ last'.emits = <<"message">>
       /\ last'.emitted = <<last'.raw>>
       /\ Decoded[last'.raw].id = last'.id
       /\ Len(last'.order) = 1 + Len(last'.calls)
       /\ last'.order[1] = "emit"
       /\ \A i \in 2..Len(last'.order) : last'.order[i] = "call"]_vars

\* the delta "1 D =3 +2]" was emitted as received and then rebuilt and passed
\* to the callback of id 1
C37_Witness ==
  /\ last.op = "onmessage"
  /\ last.letter = <<"D">>
  /\ last.emitted = <<last.raw>>
  /\ last.raw = last.id \o <<SP>> \o last.letter \o <<SP>> \o last.payload
  /\ last.order = <<"emit", "call">>
  /\ Len(last.calls) = 1

\* where the i-th cookie starts in a header that lists the cookies with a
\* semicolon and a space between them
RECURSIVE CookieOffset(_, _)
CookieOffset(cookies, i) ==
  IF i = 1 THEN 0
  ELSE CookieOffset(cookies, i - 1) + Len(cookies[i - 1]) + 2

\* the header is the cookies in order, a semicolon and a space between them
ListsCookies(header, cookies) ==
  /\ Len(header) = CookieOffset(cookies, Len(cookies) + 1) - 2
  /\ \A i \in 1..Len(cookies) :
       LET at == CookieOffset(cookies, i)
       IN /\ SubSeq(header, at + 1, at + Len(cookies[i])) = cookies[i]
          /\ i < Len(cookies) =>
               /\ header[at + Len(cookies[i]) + 1] = ";"
               /\ header[at + Len(cookies[i]) + 2] = SP

\* C38: when fetch yields a response, makeSignedRequest rejects if and only
\* if the status is outside 200..299, with an error that carries the status,
\* the status text and the body text, and resolves with the response
\* otherwise; the request has a body, the stringified payload, for POST only,
\* and a Cookie header, the cookies in order joined by "; ", only when a
\* non-empty cookie list is passed.
C38_RequestAndRejection ==
  /\ last.op \in {"makeSignedRequest", "fetchSettled"} =>
       LET rq == output.value.request
       IN /\ rq.hasBody <=> input.method = "POST"
          /\ rq.hasBody =>
               /\ rq.body[1] = "{" /\ rq.body[Len(rq.body)] = "}"
               /\ rq.body = StringifyPayload(input.payload)
          /\ ~rq.hasBody => rq.body = <<>>
          /\ "Cookie" \in DOMAIN rq.headers <=>
               (input.given /\ Len(input.cookies) > 0)
          /\ "Cookie" \in DOMAIN rq.headers =>
               ListsCookies(rq.headers["Cookie"], input.cookies)
  /\ (output.done /\ ~input.answer.failed) =>
       LET v == output.value
           a == input.answer
       IN /\ v.settled = "rejected" <=> (a.status < 200 \/ a.status > 299)
          /\ v.settled = "rejected" =>
               /\ v.error =
                    <<"R", "e", "q", "u", "e", "s", "t", SP, "f", "a", "i",
                      "l", "e", "d", ":", SP>>
                      \o toString(a.status) \o <<SP>> \o a.statusText
                      \o <<SP, "-", SP>> \o a.body
               /\ v.returned = <<>>
          /\ v.settled # "rejected" =>
               /\ v.settled = "resolved"
               /\ v.returned = <<a>>

\* a POST with two cookies was answered 401 and rejected
C38_Witness ==
  /\ last.op = "fetchSettled"
  /\ output.done
  /\ input.method = "POST"
  /\ Len(input.cookies) = 2
  /\ input.cookies[1] # input.cookies[2]
  /\ Len(input.payload) = 2
  /\ ~input.answer.failed
  /\ input.answer.status = 401
  /\ input.answer.body # <<>>
  /\ output.value.settled = "rejected"
  /\ "Cookie" \in DOMAIN output.value.request.headers

\* a byte sequence without its leading zero bytes: two sequences are the
\* same unsigned number when these agree
RECURSIVE StripZeros(_)
StripZeros(bytes) ==
  IF Len(bytes) > 0 /\ bytes[1] = 0 THEN StripZeros(Tail(bytes)) ELSE bytes

\* R is coordinate x with its leading zero bytes removed, at least one byte
\* kept, and one 0x00 before it exactly when the first byte kept is 0x80 or
\* more
EncodesCoordinate(R, x) ==
  \E k \in 0..(Len(x) - 1) :
    LET kept == SubSeq(x, k + 1, Len(x))
    IN /\ \A j \in 1..k : x[j] = 0
       /\ k = Len(x) - 1 \/ x[k + 1] # 0
       /\ R = IF kept[1] >= 128 THEN <<0>> \o kept ELSE kept

\* C39: for every 64-byte r||s the result is 0x30 L 0x02 Lr R 0x02 Ls S and
\* nothing more, with R and S the minimal encodings of r and s (leading zeros
\* removed, one byte kept at least, one 0x00 in front exactly when the first
\* byte kept is 0x80 or more), Lr and Ls their lengths, L = Lr + Ls + 4 below
\* 128, and R and S the same unsigned numbers as r and s.
C39_DerOfSignature ==
  output.done =>
    LET der == output.value
        r   == SubSeq(input.signature, 1, 32)
        s   == SubSeq(input.signature, 33, 64)
        L   == der[2]
        Lr  == der[4]
        R   == SubSeq(der, 5, 4 + Lr)
        Ls  == der[6 + Lr]
        S   == SubSeq(der, 7 + Lr, 6 + Lr + Ls)
    IN /\ Len(input.signature) = 64
       /\ der[1] = 48
       /\ der[3] = 2
       /\ der[5 + Lr] = 2
       /\ Len(der) = 6 + Lr + Ls
       /\ L = Lr + Ls + 4
       /\ L < 128
       /\ Len(R) = Lr
       /\ Len(S) = Ls
       /\ EncodesCoordinate(R, r)
       /\ EncodesCoordinate(S, s)
       /\ StripZeros(R) = StripZeros(r)
       /\ StripZeros(S) = StripZeros(s)

\* r has two leading zero bytes and then 0x80, so that R is 0x00 and the
\* thirty bytes kept; s is zero, so that S is the single byte 0x00
C39_Witness ==
  /\ output.done
  /\ input.signature[1] = 0
  /\ input.signature[2] = 0
  /\ input.signature[3] = 128
  /\ \A i \in 33..64 : input.signature[i] = 0
  /\ output.value[4] = 31
  /\ output.value[5] = 0
  /\ output.value[6] = 128
  /\ Len(output.value) = 38
  /\ output.value[38] = 0

====
